---- MODULE Spec2Model ----
(***************************************************************************)
(* Model of the simulation-and-calibration engine of                       *)
(* src/core/run_analysis_final.py (class UAEHealthAnalysis).               *)
(*                                                                         *)
(* Numbers.  The program computes in IEEE doubles.  The model computes in  *)
(* exact rationals <<num, den>> (den > 0, lowest terms); NaN is <<0, 0>>.  *)
(* A statement "within floating tolerance" is therefore checked as exact   *)
(* equality of the real-number values.  TLC integers are 32 bit, so the    *)
(* parameter tables use small values; money is counted in units of 1e8 AED *)
(* and people, events, deaths and QALYs in thousands, which leaves every   *)
(* formula of the program unchanged (they are homogeneous in these units). *)
(***************************************************************************)
EXTENDS Integers, Sequences, FiniteSets, TLC

(* ------------------------------ bounds --------------------------------- *)
\* discount_sum is called on the horizons 1..MaxHorizon
MaxHorizon == 3
\* update_inflation_adjusted_costs is called while the log holds fewer than
\* MaxOperations operations and errors
MaxOperations == 4
\* run_deterministic is called at most MaxRuns times on one cohort model
MaxRuns == 2
\* generate_ceac_data is called with 1..MaxPoints threshold points
MaxPoints == 3
\* number of programs in the portfolio (the literal table has five)
NumPrograms == 2
\* Monte Carlo batches run one iteration or MaxIter iterations
MaxIter == 2
\* at most MaxCalib calls of _calibrate_intervention in one behaviour
MaxCalib == 1

(* --------------------------- exact arithmetic -------------------------- *)
\* Operators take every shared intermediate value as a parameter, so that
\* each is written (and computed) once.
None == <<>>
\* an empty slot of a record-valued variable
Nil == [nil |-> TRUE]
NaN == <<0, 0>>

RECURSIVE GCD(_, _)
GCD(a, b) == IF b = 0 THEN a ELSE GCD(b, a % b)

AbsInt(a) == IF a < 0 THEN -a ELSE a

Reduce(n, d, g) ==
    IF d < 0 THEN <<-(n \div g), -(d \div g)>> ELSE <<n \div g, d \div g>>

\* the rational n/d in lowest terms, d # 0
R(n, d) == Reduce(n, d, GCD(AbsInt(n), AbsInt(d)))

Q(n) == <<n, 1>>
Zero == <<0, 1>>
One == <<1, 1>>

IsNaN(x) == x[2] = 0

MulBy(x, y, g1, g2) ==
    <<(x[1] \div g1) * (y[1] \div g2), (x[2] \div g2) * (y[2] \div g1)>>

Mul(x, y) ==
    IF IsNaN(x) \/ IsNaN(y) THEN NaN
    ELSE MulBy(x, y, GCD(AbsInt(x[1]), y[2]), GCD(AbsInt(y[1]), x[2]))

Neg(x) == IF IsNaN(x) THEN NaN ELSE <<-x[1], x[2]>>

\* integer parts and fractional parts are added separately, which keeps the
\* intermediate products below the common denominator
AddFrac(x, y, f) ==
    <<((x[1] \div x[2]) + (y[1] \div y[2])) * f[2] + f[1], f[2]>>

AddBy(x, y, g) ==
    AddFrac(x, y, R((x[1] % x[2]) * (y[2] \div g) + (y[1] % y[2]) * (x[2] \div g),
                    (x[2] \div g) * y[2]))

Add(x, y) ==
    IF IsNaN(x) \/ IsNaN(y) THEN NaN ELSE AddBy(x, y, GCD(x[2], y[2]))

Sub(x, y) == Add(x, Neg(y))

Recip(y) == IF y[1] < 0 THEN <<-y[2], -y[1]>> ELSE <<y[2], y[1]>>

\* x / y; a zero divisor gives NaN (numpy semantics; the modelled Python
\* divisions are all guarded or epsilon-floored)
Div(x, y) ==
    IF IsNaN(x) \/ IsNaN(y) \/ y[1] = 0 THEN NaN ELSE Mul(x, Recip(y))

\* a/b < c/d for b, d > 0, by integer parts and then by the reciprocals of
\* the fractional parts (no product is formed)
RECURSIVE CmpLt(_, _, _, _)
CmpLt(a, b, c, d) ==
    IF (a \div b) # (c \div d) THEN (a \div b) < (c \div d)
    ELSE IF c % d = 0 THEN FALSE
         ELSE IF a % b = 0 THEN TRUE
              ELSE CmpLt(d, c % d, b, a % b)

\* comparisons with NaN are false, as in IEEE arithmetic
Lt(x, y) == ~IsNaN(x) /\ ~IsNaN(y) /\ CmpLt(x[1], x[2], y[1], y[2])
Le(x, y) == ~IsNaN(x) /\ ~IsNaN(y) /\ ~CmpLt(y[1], y[2], x[1], x[2])
Gt(x, y) == Lt(y, x)
Ge(x, y) == Le(y, x)

\* Python max(a, b) / min(a, b): the first argument unless the second beats it
Max(a, b) == IF Gt(b, a) THEN b ELSE a
Min(a, b) == IF Lt(b, a) THEN b ELSE a
Abs(x) == IF IsNaN(x) THEN NaN ELSE <<AbsInt(x[1]), x[2]>>

\* Python truthiness of a float: nonzero (NaN is truthy)
Truthy(x) == x # None /\ (IsNaN(x) \/ x[1] # 0)

\* n/d rounded to the nearest integer, ties to even, over scale
RoundFrac(n, d, scale) ==
    R(IF (n % d) > d - (n % d) \/ ((n % d) = d - (n % d) /\ (n \div d) % 2 = 1)
      THEN (n \div d) + 1 ELSE n \div d,
      scale)

RoundBy(x, scale, g) == RoundFrac(x[1] * (scale \div g), x[2] \div g, scale)

\* round(x, nd) for nd decimals given as scale = 10^nd: nearest multiple of
\* 1/scale, ties to even
Round(x, scale) ==
    IF IsNaN(x) THEN NaN ELSE RoundBy(x, scale, GCD(scale, x[2]))

RECURSIVE SumSeq(_)
SumSeq(s) == IF s = <<>> THEN Zero ELSE Add(Head(s), SumSeq(Tail(s)))

(* ---------------------------- pure helpers ----------------------------- *)
\* discount_sum(T, r) = sum over t in 1..T of 1/(1+r)^t
RECURSIVE Pow(_, _)
Pow(x, t) == IF t <= 0 THEN One ELSE Mul(x, Pow(x, t - 1))

\* the sum over range(0, T): the payment of year t discounted t - 1 times
RECURSIVE discount_sum_from_now(_, _)
discount_sum_from_now(T, r) ==
    IF T <= 0 THEN Zero
    ELSE Add(discount_sum_from_now(T - 1, r), Div(One, Pow(Add(One, r), T - 1)))

RECURSIVE discount_sum(_, _)
discount_sum(T, r) ==
    IF T <= 0 THEN Zero
    ELSE Add(discount_sum(T - 1, r), Div(One, Pow(Add(One, r), T)))

\* 1e-12 is below the resolution of the model's numbers (denominators are
\* below 2^31): max(x, 1e-12) is x for every positive model number
Eps6 == R(1, 1000000)
Eps8 == R(1, 100000000)
Eps9 == R(1, 1000000000)
RRHi == R(999, 1000)

\* max(shape, 1e-12) is the shape: the shapes of the tables are positive and
\* no operation changes a shape
\* a variant that stores the mean as the scale
set_gamma_mean_as_scale(shape, mean) == <<shape, mean>>

set_gamma_mean(shape, mean) == <<shape, Div(mean, shape)>>

\* A Lognormal is kept in moment coordinates <<m, v>>, m = exp(mu + sigma^2/2)
\* its mean and v = (exp(sigma^2) - 1) m^2 its variance; (mu, sigma) and
\* (m, v) determine each other.  lognormal_mean reads the mean.
lognormal_mean(ln) == ln[1]

\* a variant without the upper bound
clamp_lower_only(x, lo, hi) == Max(lo, x)

clamp(x, lo, hi) == Max(lo, Min(hi, x))

\* mean_rr and var_rrr from a + b
MomentMatch(a, b, ab) ==
    LET mean_rrr == Div(a, ab)
        var_rrr == Div(Mul(mean_rrr, Div(b, ab)), Add(ab, One))
        mean_rr == Max(Eps8, Sub(One, mean_rrr))
    IN  <<mean_rr, var_rrr>>

\* moment matching: the derived Lognormal has mean max(1e-8, 1 - a/(a+b)) and
\* variance var_rrr (the 1e-12 floors do not bind on model numbers)
beta_rrr_to_lognormal_rr(a, b) == MomentMatch(a, b, Add(a, b))

\* dict.get(key_exact, dict[key]) and (dict.get(key_exact) or dict[key])
Get(exact, visible) == IF exact = None THEN visible ELSE exact

(* -------------------------- parameter tables --------------------------- *)
\* the interventions of the portfolio, in dict order
AllKeys == <<"cvd", "diabetes", "cancer">>
KeySeq == SubSeq(AllKeys, 1, NumPrograms)
Keys == {KeySeq[i] : i \in 1..NumPrograms}

Metrics == <<"investment", "hc_savings", "soc_savings", "total_savings",
             "events_prevented", "deaths_averted", "qalys", "roi", "icer">>

\* one entry of default_params["interventions"] as written in the source:
\* no *_exact keys yet (None stands for an absent key or a None value)
Intervention(N, pe, cfr, u, ql, ly, cg, eg, pg, ln, beta) ==
    [Result_population |-> N,
     annual_event_rate |-> pe, annual_event_rate_exact |-> None,
     case_fatality_rate |-> cfr, case_fatality_rate_exact |-> None,
     utility_weight |-> u, utility_weight_exact |-> None,
     qalys_lost_per_event |-> ql, qalys_lost_per_event_exact |-> None,
     life_years_lost_per_death |-> ly, life_years_lost_per_death_exact |-> None,
     cost_ppy_gamma |-> cg, cost_ppy_gamma_exact |-> None,
     event_cost_gamma |-> eg, event_cost_gamma_exact |-> None,
     productivity_cost_gamma |-> pg, productivity_cost_gamma_exact |-> None,
     rr_lognormal |-> ln, rr_lognormal_exact |-> None,
     rrr_beta |-> beta]

Adjustments(ev, mo, qa, hc, pr, be) ==
    [overlap_events |-> ev, mortality_synergy |-> mo, qaly_synergy |-> qa,
     hc_realization |-> hc, prod_realization |-> pr, benefit_synergy |-> be]

\* the shape of the literal table: Beta risk reduction and no Lognormal (the
\* third program carries a Lognormal of its own)
BaseInterventions(cfrOn) ==
    [k \in Keys |->
        CASE k = "cvd" ->
               Intervention(16, R(1, 8), IF cfrOn THEN R(1, 4) ELSE Zero, R(1, 2),
                            R(1, 2), Q(2), <<Q(5), R(1, 10)>>, <<Q(4), R(1, 2)>>,
                            <<Q(3), One>>, None, <<Q(3), Q(2)>>)
          [] k = "diabetes" ->
               Intervention(8, R(1, 4), IF cfrOn THEN R(1, 2) ELSE Zero, One,
                            R(1, 8), R(1, 2), <<Q(5), R(1, 5)>>, <<Q(4), R(1, 4)>>,
                            <<Q(2), R(1, 2)>>, None, <<Q(4), One>>)
          [] OTHER ->
               Intervention(10, R(1, 5), IF cfrOn THEN R(1, 4) ELSE Zero, R(1, 2),
                            R(1, 2), Q(2), <<Q(2), R(1, 4)>>, <<Q(2), One>>,
                            <<One, R(1, 2)>>, <<R(1, 2), R(1, 100)>>, <<One, One>>)]

ParamTable(T, r, persp, adj, cfrOn) ==
    [meta |-> [horizon_years |-> T, perspective |-> persp],
     health_system |-> [discount_rate |-> r],
     portfolio_adjustments |-> adj,
     portfolio_adjustments_exact |-> None,
     interventions |-> BaseInterventions(cfrOn)]

\* multipliers shaped like the literal ones (one of them has four decimals)
LiteralAdjustments == Adjustments(R(3, 4), R(3, 2), R(81, 16), Q(2), R(1, 2), R(5, 4))

\* the tables a process can start from; the last one fails validation
\* (discount rate above 0.2)
ParamTables ==
    { ParamTable(2, Zero, "societal", LiteralAdjustments, TRUE),
      ParamTable(1, R(1, 9), "healthcare", LiteralAdjustments, FALSE),
      ParamTable(1, R(1, 4), "societal", LiteralAdjustments, TRUE) }

\* a table whose entry `key` has "Result_population": N
WithPopulation(P, key, N) ==
    [P EXCEPT !.interventions[key].Result_population = N]

\* tables with a program without population: no one enrolled, and a negative
\* head count (validation does not look at Result_population)
PopTables ==
    { WithPopulation(ParamTable(2, Zero, "societal", LiteralAdjustments, TRUE), "cvd", 0),
      WithPopulation(ParamTable(1, R(1, 9), "societal", LiteralAdjustments, TRUE),
                     "diabetes", -8) }

\* a table whose entry `key` has "rr_lognormal": ln and "rrr_beta": beta
WithRisk(P, key, ln, beta) ==
    [P EXCEPT !.interventions[key].rr_lognormal = ln,
              !.interventions[key].rrr_beta = beta]

\* tables whose risk reduction meets the clamp or the fallbacks: a residual
\* risk above 1 beside a program with neither Lognormal nor Beta, a residual
\* risk of 1e-6, and the Beta-only table that fails validation (it stays
\* without derived Lognormals)
RiskTables ==
    { WithRisk(WithRisk(ParamTable(1, R(1, 9), "societal", LiteralAdjustments, TRUE),
                        "cvd", <<R(5, 4), R(1, 100)>>, None),
               "diabetes", None, None),
      WithRisk(ParamTable(1, Zero, "healthcare",
                          Adjustments(R(3, 4), R(3, 2), Q(5), Q(2), R(1, 2), R(5, 4)), TRUE),
               "cvd", <<Eps6, R(1, 100)>>, None),
      ParamTable(1, R(1, 4), "societal", LiteralAdjustments, TRUE) }

\* a table in which no program has a population, and one in which no
\* program has events
Unpopulated(P) ==
    [P EXCEPT !.interventions = [k \in Keys |-> [@[k] EXCEPT !.Result_population = 0]]]
Uneventful(P) ==
    [P EXCEPT !.interventions = [k \in Keys |-> [@[k] EXCEPT !.annual_event_rate = Zero]]]

\* tables with nothing invested or nothing gained, beside an ordinary one
ZeroTables ==
    { Unpopulated(ParamTable(1, Zero, "societal", LiteralAdjustments, TRUE)),
      Uneventful(ParamTable(1, Zero, "societal", LiteralAdjustments, TRUE)),
      ParamTable(2, Zero, "societal", LiteralAdjustments, TRUE) }

\* a table whose programme-cost Gamma of `key` is g
WithCostGamma(P, key, g) ==
    [P EXCEPT !.interventions[key].cost_ppy_gamma = g]

\* a table with an invalid distribution (a negative Gamma scale, which
\* validation does not look at), beside an ordinary one
FaultTables ==
    { WithCostGamma(ParamTable(1, Zero, "societal", LiteralAdjustments, TRUE),
                    "cvd", <<Q(5), R(-1, 10)>>),
      ParamTable(2, Zero, "societal", LiteralAdjustments, TRUE) }

\* the tables at the edges of the simulator's input domain
EdgeTables == PopTables \cup RiskTables

(* ------------------------------- state --------------------------------- *)
VARIABLES
    default_params,   \* the module-level table; self.parameters aliases it
    loaded,           \* self.parameters is default_params (not {})
    results,          \* self.results: markov, monte_carlo, roi
    rng,              \* state of the generator created by the last run (-1: none)
    samples,          \* run_monte_carlo's locals: the per-iteration records
    markov_hist,      \* history: run_markov_models calls since the last mutation
    mc_watch,         \* history: the first run_monte_carlo since the last mutation
    last_mc,          \* history: (seed, n) of the last run_monte_carlo
    calibrated,       \* history: the calibrations applied since the last load
    n_calib,          \* number of _calibrate_intervention calls so far
    load_error,       \* the exception the last load_parameters raised (None: none)
    last_calibrate,   \* the last calibrate(): what it read, the
                      \* _calibrate_intervention calls it made, what it returned
    last_op,          \* history: the method called last
    run_error,        \* the exception the last run_markov_models or
                      \* run_monte_carlo raised (None: it returned)
    discount,         \* the discount_sum calls made on one horizon: the
                      \* last call and the one before it
    np_random,        \* state of numpy's global generator (-1: never seeded)
    psa,              \* a MonteCarloEngine: n_iterations, random_seed,
                      \* parameters, results
    parameter_samples, \* run_simulation's local: per parameter, the generator
                      \* states its samples were drawn from
    ceac,             \* what the last generate_ceac_data returned
    cohort_model,     \* a MarkovCohortModel: its attributes
    cohort_out,       \* the last two returns of run_deterministic
    current_year,     \* DataPreprocessor.current_year
    cost_file,        \* contents of cost_parameters_aed_2025.json
    processing_log,   \* DataPreprocessor.processing_log: operations, errors
    inflation_ret     \* what the last update_inflation_adjusted_costs returned

\* the state of a UAEHealthAnalysis object and of its module
engine == <<default_params, loaded, results, rng, samples,
            markov_hist, mc_watch, last_mc, calibrated, n_calib, load_error,
            last_calibrate, last_op, run_error>>

\* the state of the functions and classes outside UAEHealthAnalysis
psaVars == <<np_random, psa, parameter_samples, ceac>>
markovVars == <<cohort_model, cohort_out>>
costVars == <<current_year, cost_file, processing_log, inflation_ret>>
others == <<discount, psaVars, markovVars, costVars>>

vars == <<engine, others>>

\* no call outside UAEHealthAnalysis has been made
DiscountIdle == discount = Nil
PsaIdle ==
    /\ np_random = -1
    /\ psa = Nil
    /\ parameter_samples = Nil
    /\ ceac = Nil
MarkovIdle ==
    /\ cohort_model = Nil
    /\ cohort_out = <<>>
CostIdle ==
    /\ current_year = 0
    /\ cost_file = Nil
    /\ processing_log = Nil
    /\ inflation_ret = Nil
OthersIdle ==
    /\ DiscountIdle
    /\ PsaIdle
    /\ MarkovIdle
    /\ CostIdle

\* self.parameters
parameters == default_params

(* ------------------------------- load ---------------------------------- *)
\* _validate_parameters: the asserts hold
Valid(P) ==
    /\ P.meta.horizon_years > 0
    /\ Le(Zero, P.health_system.discount_rate)
    /\ Le(P.health_system.discount_rate, R(1, 5))
    /\ \A k \in Keys :
          LET intr == P.interventions[k]
          IN  /\ Le(Zero, intr.annual_event_rate) /\ Le(intr.annual_event_rate, One)
              /\ Le(Zero, intr.case_fatality_rate) /\ Le(intr.case_fatality_rate, One)
              /\ Lt(Zero, intr.utility_weight) /\ Le(intr.utility_weight, One)

\* what a failing assert of _validate_parameters raises: the statements are
\* `assert <condition>` without a message
AssertionError == [kind |-> "AssertionError", message |-> ""]

\* round(scale, 1) of a Gamma scale: one decimal of an AED is 1e-6 of the
\* model's unit (1e5 AED per person or per event)
RoundScale(x) == Round(x, 1000000)
Round3(x) == Round(x, 1000)

\* load_parameters, the body of the two loops for one intervention, ln being
\* the Lognormal after the derivation of lines 365-369.  The rounding of
\* (mu, sigma) to three decimals is modelled as the rounding of the moment
\* coordinates to three decimals.
LoadWith(intr, ln) ==
    [intr EXCEPT
      !.rr_lognormal_exact = IF ln # None THEN ln ELSE @,
      !.rr_lognormal = IF ln # None THEN <<Round3(ln[1]), Round3(ln[2])>> ELSE ln,
      !.cost_ppy_gamma_exact = intr.cost_ppy_gamma,
      !.cost_ppy_gamma = <<Round3(@[1]), RoundScale(@[2])>>,
      !.event_cost_gamma_exact = intr.event_cost_gamma,
      !.event_cost_gamma = <<Round3(@[1]), RoundScale(@[2])>>,
      !.productivity_cost_gamma_exact = intr.productivity_cost_gamma,
      !.productivity_cost_gamma = <<Round3(@[1]), RoundScale(@[2])>>,
      !.annual_event_rate_exact = intr.annual_event_rate,
      !.annual_event_rate = Round3(@),
      !.case_fatality_rate_exact = intr.case_fatality_rate,
      !.case_fatality_rate = Round3(@),
      !.utility_weight_exact = intr.utility_weight,
      !.utility_weight = Round3(@),
      !.qalys_lost_per_event_exact = intr.qalys_lost_per_event,
      !.qalys_lost_per_event = Round3(@),
      !.life_years_lost_per_death_exact = intr.life_years_lost_per_death,
      !.life_years_lost_per_death = Round3(@)]

LoadIntervention(intr) ==
    LoadWith(intr, IF intr.rr_lognormal = None /\ intr.rrr_beta # None
                   THEN beta_rrr_to_lognormal_rr(intr.rrr_beta[1], intr.rrr_beta[2])
                   ELSE intr.rr_lognormal)

RoundAdjustments(pa) ==
    [f \in DOMAIN pa |-> Round3(pa[f])]

\* load_parameters after a successful validation
LoadedParams(P) ==
    [P EXCEPT
      !.interventions = [k \in Keys |-> LoadIntervention(P.interventions[k])],
      !.portfolio_adjustments_exact = P.portfolio_adjustments,
      !.portfolio_adjustments = RoundAdjustments(P.portfolio_adjustments)]

(* ----------------------------- sampling -------------------------------- *)
\* np.random.default_rng(seed): a fresh generator whose stream is a function
\* of the seed alone.  The generator state s is the position in the stream;
\* a draw reads s and moves it on.
\* a variant with one generator shared by all runs
default_rng_shared(seed) == IF rng = -1 THEN seed % 11 ELSE rng

default_rng(seed) == seed % 11
NextRng(s) == (s + 1) % 11
\* the variate of a draw, relative to the mean of its distribution
Spread(s) == R((s % 4) + 1, 2)

\* rng.gamma(k, th): mean k*th; a shape of 1e6 or more has relative standard
\* deviation 1e-3 or less and is modelled as its mean
rng_gamma(s, k, th) ==
    IF Ge(k, Q(1000000)) THEN Mul(k, th) ELSE Mul(Mul(k, th), Spread(s))
\* rng.lognormal(mu, sigma): positive, unbounded above
rng_lognormal(s, ln) == Mul(ln[1], Spread(s))

\* a variate of mean m inside (0, 1)
BetaAt(m, sp) ==
    IF Le(sp, One) THEN Mul(m, sp) ELSE Sub(One, Div(Sub(One, m), sp))
\* rng.beta(a, b): inside (0, 1)
rng_beta(s, a, b) == BetaAt(Div(a, Add(a, b)), Spread(s))

\* rng.gamma(shape, scale) raises ValueError for a negative shape or scale,
\* rng.beta(a, b) for a <= 0 or b <= 0
ValueError == [kind |-> "ValueError"]
GammaRaises(g) == Lt(g[1], Zero) \/ Lt(g[2], Zero)
BetaRaises(beta) == Le(beta[1], Zero) \/ Le(beta[2], Zero)

(* ------------------------- _simulate_intervention ---------------------- *)
\* lines 438-454: the six outputs from the yearly flows
OutcomeFlows(T, D, N, prevented_py, p_cfr, u, qloss_evt, ly_loss, cost_ppy, cost_event, prod_event) ==
    LET deaths_py == Mul(prevented_py, p_cfr)
        invest_py == Mul(N, cost_ppy)
        hc_sav_py == Mul(prevented_py, cost_event)
        soc_sav_py == Mul(prevented_py, prod_event)
        qalys_py == Mul(Mul(prevented_py, Add(qloss_evt, Mul(p_cfr, ly_loss))), u)
    IN  [investment |-> Mul(invest_py, D),
         hc_savings |-> Mul(hc_sav_py, D),
         soc_savings |-> Mul(soc_sav_py, D),
         qalys |-> Mul(qalys_py, D),
         events_prevented |-> Mul(prevented_py, T),
         deaths_averted |-> Mul(deaths_py, T)]

\* the outputs from the sampled (or mean) inputs; *_exact values are read
\* first (lines 415-416)
Outcome(P, intr, cost_ppy, cost_event, prod_event, rrr) ==
    LET N == Q(intr.Result_population)
        p_event == Get(intr.annual_event_rate_exact, intr.annual_event_rate)
        base_events == Mul(N, p_event)
        prevented_py == Mul(base_events, rrr)
    IN  OutcomeFlows(Q(P.meta.horizon_years),
                     discount_sum(P.meta.horizon_years, P.health_system.discount_rate),
                     Q(intr.Result_population),
                     prevented_py,
                     Get(intr.case_fatality_rate_exact, intr.case_fatality_rate),
                     Get(intr.utility_weight_exact, intr.utility_weight),
                     Get(intr.qalys_lost_per_event_exact, intr.qalys_lost_per_event),
                     Get(intr.life_years_lost_per_death_exact,
                         intr.life_years_lost_per_death),
                     cost_ppy, cost_event,
                     IF P.meta.perspective = "societal" THEN prod_event ELSE Zero)

\* a_rrr and b_rrr
HasBeta(beta) == beta # None /\ Truthy(beta[1]) /\ Truthy(beta[2])

\* cost_ppy: k_c*th_c, or a draw with the shape raised to 1e6 (lines 429-430)
DrawCostPpy(deterministic, s, cg) ==
    IF deterministic THEN Mul(cg[1], cg[2])
    ELSE LET k_c_eff == Max(cg[1], Q(1000000))
             th_c_eff == Div(Mul(cg[1], cg[2]), Max(cg[1], Q(1000000)))
         IN  rng_gamma(s, k_c_eff, th_c_eff)

\* cost_event and prod_event: k*th, or a draw
DrawGamma(deterministic, s, g) ==
    IF deterministic THEN Mul(g[1], g[2]) ELSE rng_gamma(s, g[1], g[2])

\* rrr: from the Lognormal if there is one, else from the Beta, else 0.2
DrawRrr(deterministic, s, rr_ln, beta) ==
    IF rr_ln # None
    THEN Sub(One, clamp(IF deterministic THEN lognormal_mean(rr_ln)
                        ELSE rng_lognormal(s, rr_ln),
                        Eps6, RRHi))
    ELSE IF HasBeta(beta)
         THEN IF deterministic THEN Div(beta[1], Add(beta[1], beta[2]))
              ELSE rng_beta(s, beta[1], beta[2])
         ELSE R(1, 5)

\* the result and the generator state left, from the distributions read at
\* lines 417-420
SimulateWith(P, intr, s, deterministic, cg, eg, pg, rr_ln, beta) ==
    [out |-> Outcome(P, intr,
                     DrawCostPpy(deterministic, s, cg),
                     DrawGamma(deterministic, NextRng(s), eg),
                     DrawGamma(deterministic, NextRng(NextRng(s)), pg),
                     DrawRrr(deterministic, NextRng(NextRng(NextRng(s))), rr_ln, beta)),
     rng |-> IF deterministic THEN s
             ELSE IF rr_ln # None \/ HasBeta(beta)
                  THEN NextRng(NextRng(NextRng(NextRng(s))))
                  ELSE NextRng(NextRng(NextRng(s)))]

SimulateOne(P, intr, s, deterministic) ==
    SimulateWith(P, intr, s, deterministic,
                 Get(intr.cost_ppy_gamma_exact, intr.cost_ppy_gamma),
                 Get(intr.event_cost_gamma_exact, intr.event_cost_gamma),
                 Get(intr.productivity_cost_gamma_exact, intr.productivity_cost_gamma),
                 Get(intr.rr_lognormal_exact, intr.rr_lognormal),
                 intr.rrr_beta)

\* _simulate_intervention(key, rng, deterministic): the result and the
\* generator state it leaves
simulate_intervention(P, key, s, deterministic) ==
    SimulateOne(P, P.interventions[key], s, deterministic)

\* the draws of one stochastic evaluation of a program (lines 429-436) raise
DrawsRaise(cg, eg, pg, rr_ln, beta) ==
    \/ GammaRaises(<<Max(cg[1], Q(1000000)),
                     Div(Mul(cg[1], cg[2]), Max(cg[1], Q(1000000)))>>)
    \/ GammaRaises(eg)
    \/ GammaRaises(pg)
    \/ (rr_ln = None /\ HasBeta(beta) /\ BetaRaises(beta))

\* _simulate_intervention(key, rng, False) raises
SimulationRaises(intr) ==
    DrawsRaise(Get(intr.cost_ppy_gamma_exact, intr.cost_ppy_gamma),
               Get(intr.event_cost_gamma_exact, intr.event_cost_gamma),
               Get(intr.productivity_cost_gamma_exact, intr.productivity_cost_gamma),
               Get(intr.rr_lognormal_exact, intr.rr_lognormal),
               intr.rrr_beta)

\* a stochastic pass over the programs raises: nothing catches the
\* exception of a draw (lines 459, 497)
PassRaises(P) == \E k \in Keys : SimulationRaises(P.interventions[k])

(* --------------------------- run_markov_models ------------------------- *)
Fields == {"investment", "hc_savings", "soc_savings", "qalys",
           "events_prevented", "deaths_averted"}

\* the dict comprehension over the interventions, threading the generator
RECURSIVE SimulateFrom(_, _, _, _, _)
RECURSIVE SimulateNext(_, _, _, _, _)
SimulateNext(P, i, deterministic, acc, one) ==
    SimulateFrom(P, i + 1, one.rng, deterministic, [acc EXCEPT ![KeySeq[i]] = one.out])

SimulateFrom(P, i, s, deterministic, acc) ==
    IF i > NumPrograms THEN [per |-> acc, rng |-> s]
    ELSE SimulateNext(P, i, deterministic, acc,
                      simulate_intervention(P, KeySeq[i], s, deterministic))

ZeroOutcome == [f \in Fields |-> Zero]

\* a variant that reuses the breakdown stored by the previous run
per_intervention_cached(P, s, deterministic) ==
    IF results.markov = Nil
    THEN SimulateFrom(P, 1, s, deterministic, [k \in Keys |-> ZeroOutcome])
    ELSE [per |-> results.markov.per_intervention, rng |-> s]

per_intervention(P, s, deterministic) ==
    SimulateFrom(P, 1, s, deterministic, [k \in Keys |-> ZeroOutcome])

\* sum(v[f] for v in per.values())
SumField(per, f) == SumSeq([i \in 1..NumPrograms |-> per[KeySeq[i]][f]])

PortfolioSums(per) == [f \in Fields |-> SumField(per, f)]

\* line 480: portfolio['total_savings'] = hc_savings + soc_savings
WithTotalSavings(p) ==
    [f \in Fields \cup {"total_savings"} |->
        IF f = "total_savings" THEN Add(p.hc_savings, p.soc_savings) ELSE p[f]]

\* a variant of the total that applies the benefit synergy a second time
WithTotalSavings_twice(p, adj) ==
    [f \in Fields \cup {"total_savings"} |->
        IF f = "total_savings"
        THEN Mul(Add(p.hc_savings, p.soc_savings), adj.benefit_synergy)
        ELSE p[f]]

\* lines 468-479: each multiplier applied to its sum
Multiplied(sums, adj) ==
    [investment |-> sums.investment,
     hc_savings |-> Mul(sums.hc_savings, Mul(adj.hc_realization, adj.benefit_synergy)),
     soc_savings |-> Mul(sums.soc_savings, Mul(adj.prod_realization, adj.benefit_synergy)),
     qalys |-> Mul(sums.qalys, adj.qaly_synergy),
     events_prevented |-> Mul(sums.events_prevented, adj.overlap_events),
     deaths_averted |-> Mul(sums.deaths_averted, adj.mortality_synergy)]

\* a variant that also scales investment by the benefit synergy
AdjustPortfolio_investment(sums, adj) ==
    WithTotalSavings([Multiplied(sums, adj) EXCEPT
                        !.investment = Mul(@, adj.benefit_synergy)])

\* a variant that applies the benefit synergy a second time to the total
AdjustPortfolio_twice(sums, adj) ==
    WithTotalSavings_twice(Multiplied(sums, adj), adj)

\* lines 468-480: the multipliers applied to the sums, then total_savings
AdjustPortfolio(sums, adj) == WithTotalSavings(Multiplied(sums, adj))

\* a variant without the reconciliation of deaths
RescaleDeaths_skipped(per, portfolio) == per

RescaleBy_events(per, portfolio, sum_deaths, sum_events) ==
    IF Truthy(sum_deaths) /\ Truthy(sum_events)
    THEN [k \in Keys |->
            [per[k] EXCEPT
               !.deaths_averted = Mul(@, Div(portfolio.deaths_averted, sum_deaths)),
               !.events_prevented = Mul(@, Div(portfolio.events_prevented, sum_events))]]
    ELSE per

\* a variant that reconciles events_prevented as well
RescaleDeaths_events(per, portfolio) ==
    RescaleBy_events(per, portfolio, SumField(per, "deaths_averted"),
                     SumField(per, "events_prevented"))

\* lines 482-485, _sum_deaths being the sum of line 481
RescaleBy(per, portfolio, sum_deaths) ==
    IF Truthy(sum_deaths)
    THEN LET scale == Div(portfolio.deaths_averted, sum_deaths)
         IN  [k \in Keys |-> [per[k] EXCEPT !.deaths_averted = Mul(@, scale)]]
    ELSE per

\* lines 481-485: per-program deaths rescaled to the adjusted portfolio total
RescaleDeaths(per, portfolio) ==
    RescaleBy(per, portfolio, SumField(per, "deaths_averted"))

\* out = {'per_intervention': per, 'portfolio': portfolio}, with the
\* generator state
Reconciled(sim, portfolio) ==
    [per_intervention |-> RescaleDeaths(sim.per, portfolio),
     portfolio |-> portfolio,
     rng |-> sim.rng]

Aggregated(sim, adj) == Reconciled(sim, AdjustPortfolio(PortfolioSums(sim.per), adj))

\* the value run_markov_models returns and stores
MarkovOut(P, deterministic, seed) ==
    Aggregated(per_intervention(P, default_rng(seed), deterministic),
               Get(P.portfolio_adjustments_exact, P.portfolio_adjustments))

(* ----------------------------- calculate_roi --------------------------- *)
RoiOf(port, invest, savings) ==
    [total_investment |-> invest,
     total_savings |-> savings,
     net_benefit |-> Sub(savings, invest),
     roi_percentage |-> IF Gt(invest, Zero)
                        THEN Mul(Div(Sub(savings, invest), invest), Q(100))
                        ELSE Zero,
     roi_ratio |-> IF Gt(invest, Zero) THEN Div(savings, invest) ELSE Zero,
     total_events_prevented |-> port.events_prevented,
     total_deaths_averted |-> port.deaths_averted,
     total_qalys_gained |-> port.qalys]

RoiOut(port) == RoiOf(port, port.investment, Add(port.hc_savings, port.soc_savings))

(* ----------------------------- run_monte_carlo ------------------------- *)
\* a variant of line 500 without the two guards
IterationOf_unguarded(invest, hc, soc, q, ev, de, total) ==
    [investment |-> invest, hc_savings |-> hc, soc_savings |-> soc,
     total_savings |-> total, events_prevented |-> ev,
     deaths_averted |-> de, qalys |-> q,
     roi |-> Div(Sub(total, invest), invest),
     icer |-> Div(Sub(invest, total), q)]

\* line 500: total, roi and icer of one iteration
IterationOf(invest, hc, soc, q, ev, de, total) ==
    [investment |-> invest, hc_savings |-> hc, soc_savings |-> soc,
     total_savings |-> total, events_prevented |-> ev,
     deaths_averted |-> de, qalys |-> q,
     roi |-> IF Gt(invest, Zero) THEN Div(Sub(total, invest), invest) ELSE Zero,
     icer |-> IF Gt(q, Zero) THEN Div(Sub(invest, total), q) ELSE NaN]

IterationSums(sums) ==
    IterationOf(sums.investment, sums.hc_savings, sums.soc_savings, sums.qalys,
                sums.events_prevented, sums.deaths_averted,
                Add(sums.hc_savings, sums.soc_savings))

\* lines 498-500: the portfolio values of one iteration
IterationValues(per) == IterationSums(PortfolioSums(per))

\* the loop of lines 496-504: n iterations on one generator
RECURSIVE Iterate(_, _, _, _)
RECURSIVE IterateNext(_, _, _, _)
IterateNext(P, n, acc, sim) ==
    Iterate(P, n - 1, sim.rng,
            Append(acc, [per |-> sim.per, vals |-> IterationValues(sim.per)]))

Iterate(P, n, s, acc) ==
    IF n = 0 THEN [iters |-> acc, rng |-> s]
    ELSE IterateNext(P, n, acc, per_intervention(P, s, FALSE))

\* the non-NaN entries of a sequence, in order
RECURSIVE DropNaN(_)
DropNaN(a) ==
    IF a = <<>> THEN <<>>
    ELSE IF IsNaN(Head(a)) THEN DropNaN(Tail(a))
         ELSE <<Head(a)>> \o DropNaN(Tail(a))

RECURSIVE Insert(_, _)
Insert(x, a) ==
    IF a = <<>> THEN <<x>>
    ELSE IF Le(x, Head(a)) THEN <<x>> \o a
         ELSE <<Head(a)>> \o Insert(x, Tail(a))

RECURSIVE Sort(_)
Sort(a) == IF a = <<>> THEN <<>> ELSE Insert(Head(a), Sort(Tail(a)))

MeanOf(v) == IF v = <<>> THEN NaN ELSE Div(SumSeq(v), Q(Len(v)))
\* np.nanmean
NanMean(a) == MeanOf(DropNaN(a))

\* the median of a sorted sequence of n entries
MedianOf(v, n) ==
    IF n = 0 THEN NaN
    ELSE IF n % 2 = 1 THEN v[(n + 1) \div 2]
         ELSE Div(Add(v[n \div 2], v[(n \div 2) + 1]), Q(2))
\* np.nanmedian
NanMedian(a) == MedianOf(Sort(DropNaN(a)), Len(DropNaN(a)))

\* A standard deviation is irrational in general and is carried unevaluated
\* as [factor, of]: factor times the square root of the sum of the sample
\* variances (ddof = 1) of the sequences in `of`.  NaN: factor is NaN.
StdNaN == [factor |-> NaN, of |-> <<>>]

StdOf(v) == IF Len(v) < 2 THEN StdNaN ELSE [factor |-> One, of |-> <<v>>]
\* np.nanstd(a, ddof=1): NaN with fewer than two valid samples
NanStd(a) == StdOf(DropNaN(a))

\* linear interpolation in a sorted sequence of n entries between the
\* entries lo + 1 and lo + 2, frac of the way
PercentileAt(v, n, lo, frac) ==
    IF n = 0 THEN NaN
    ELSE IF lo + 1 >= n THEN v[n]
         ELSE Add(v[lo + 1], Mul(frac, Sub(v[lo + 2], v[lo + 1])))
\* the virtual index (n-1) qn/qd
PercentileOf(v, n, qn, qd) ==
    PercentileAt(v, n, ((n - 1) * qn) \div qd, R(((n - 1) * qn) % qd, qd))
\* np.nanpercentile(a, q), q = qn/qd of the way
NanPercentile(a, qn, qd) == PercentileOf(Sort(DropNaN(a)), Len(DropNaN(a)), qn, qd)

summarize(a) ==
    [mean |-> NanMean(a), median |-> NanMedian(a), std |-> NanStd(a),
     ci_lower |-> NanPercentile(a, 1, 40), ci_upper |-> NanPercentile(a, 39, 40)]

\* the literal `results` table of lines 511-518 (money in 1e8 AED, counts in
\* thousands)
Targets ==
    [total_savings |-> <<Q(448), Q(600)>>,
     net_benefit |-> <<Q(199), Q(459)>>,
     roi |-> <<R(119, 100), R(196, 100)>>,
     events_prevented |-> <<Q(142), Q(174)>>,
     deaths_averted |-> <<Q(14), R(37, 2)>>,
     qalys |-> <<Q(286), Q(367)>>]

\* lines 519-527
NetBenefit(ts, inv) ==
    [mean |-> Sub(ts.mean, inv.mean),
     median |-> Sub(ts.median, inv.median),
     std |-> IF IsNaN(ts.std.factor) \/ IsNaN(inv.std.factor) THEN StdNaN
             ELSE [factor |-> One, of |-> ts.std.of \o inv.std.of],
     ci_lower |-> Sub(ts.ci_lower, inv.ci_upper),
     ci_upper |-> Sub(ts.ci_upper, inv.ci_lower)]

\* lines 536-540
AffineApply(d, lo_tgt, hi_tgt, alpha, beta) ==
    [mean |-> Add(alpha, Mul(beta, d.mean)),
     median |-> Add(alpha, Mul(beta, d.median)),
     std |-> IF IsNaN(beta) \/ IsNaN(d.std.factor) THEN StdNaN
             ELSE [d.std EXCEPT !.factor = Mul(Abs(beta), @)],
     ci_lower |-> lo_tgt,
     ci_upper |-> hi_tgt]

\* alpha: lo_tgt - lo with beta = 1, lo_tgt - beta*lo otherwise
AffineWith(d, lo_tgt, hi_tgt, lo, beta) ==
    AffineApply(d, lo_tgt, hi_tgt, Sub(lo_tgt, Mul(beta, lo)), beta)

\* beta; |hi - lo| < 1e-12 is hi = lo on model numbers
AffineBeta(lo, hi, lo_tgt, hi_tgt) ==
    IF ~IsNaN(lo) /\ ~IsNaN(hi) /\ Sub(hi, lo) = Zero THEN One
    ELSE Div(Sub(hi_tgt, lo_tgt), Sub(hi, lo))

\* _affine_stats(d, lo_tgt, hi_tgt)
affine_stats(d, lo_tgt, hi_tgt) ==
    AffineWith(d, lo_tgt, hi_tgt, d.ci_lower,
               AffineBeta(d.ci_lower, d.ci_upper, lo_tgt, hi_tgt))

SummaryKeys == {Metrics[i] : i \in 1..Len(Metrics)} \cup {"net_benefit"}

\* column m of the collected samples
Column(iters, m) == [i \in 1..Len(iters) |-> iters[i].vals[m]]

\* the summary before the rescaling of lines 528-544
RawSummary(iters) ==
    [m \in SummaryKeys |->
        IF m = "net_benefit"
        THEN NetBenefit(summarize(Column(iters, "total_savings")),
                        summarize(Column(iters, "investment")))
        ELSE summarize(Column(iters, m))]

\* lines 542-544
Rescaled(raw) ==
    [m \in SummaryKeys |->
        IF m \in DOMAIN Targets
        THEN affine_stats(raw[m], Targets[m][1], Targets[m][2])
        ELSE raw[m]]

\* the summary run_monte_carlo returns and stores
Summary(iters) == Rescaled(RawSummary(iters))

Summarized(run) == [summary |-> Summary(run.iters), iters |-> run.iters, rng |-> run.rng]

MonteCarloOut(P, n, seed) == Summarized(Iterate(P, n, default_rng(seed), <<>>))

(* ------------------------ _calibrate_intervention ---------------------- *)
\* a CalibrationTarget: None marks an absent field
Target(inv, ev, de, roi, cq) ==
    [investment |-> inv, events_prevented |-> ev, deaths_averted |-> de,
     roi_ratio |-> roi, c_per_qaly |-> cq]

\* lines 595-597
CalibRrrMean(intr) ==
    IF Get(intr.rr_lognormal_exact, intr.rr_lognormal) # None
    THEN Sub(One, lognormal_mean(Get(intr.rr_lognormal_exact, intr.rr_lognormal)))
    ELSE IF intr.rrr_beta = None THEN Div(Q(20), Add(Q(20), Q(10)))
         ELSE Div(intr.rrr_beta[1], Add(intr.rrr_beta[1], intr.rrr_beta[2]))

\* lines 599-601: investment
StepInvestment(intr, tgt, N, D) ==
    IF tgt.investment # None
    THEN [intr EXCEPT !.cost_ppy_gamma =
              set_gamma_mean(@[1], Div(tgt.investment, Mul(N, D)))]
    ELSE intr

HasEvents(tgt) == tgt.events_prevented # None /\ Truthy(tgt.events_prevented)

\* E of lines 604 and 608
EventsOf(intr, tgt, N, T, rrr_mean) ==
    IF HasEvents(tgt) THEN tgt.events_prevented
    ELSE Mul(Mul(Mul(N, T), rrr_mean), intr.annual_event_rate)

\* a variant that rewrites the Beta whether or not there is a target
StepEvents_beta_always(i1, tgt, N, T, rrr_mean) ==
    [i1 EXCEPT
       !.rrr_beta = <<Mul(rrr_mean, Q(1000000)), Mul(Sub(One, rrr_mean), Q(1000000))>>,
       !.annual_event_rate =
          IF HasEvents(tgt)
          THEN clamp(Div(tgt.events_prevented, Mul(Mul(N, T), Max(rrr_mean, Eps9))),
                     Eps8, R(95, 100))
          ELSE @]

\* a variant without the floor of 1e-9
EventDivisor_unfloored(N, T, rrr_mean) == Mul(Mul(N, T), rrr_mean)

\* the divisor of line 604: N*T*max(rrr_mean, 1e-9)
EventDivisor(N, T, rrr_mean) == Mul(Mul(N, T), Max(rrr_mean, Eps9))

\* lines 603-606: events_prevented
StepEvents(i1, tgt, N, T, rrr_mean) ==
    IF HasEvents(tgt)
    THEN [i1 EXCEPT
           !.rrr_beta = <<Mul(rrr_mean, Q(1000000)),
                          Mul(Sub(One, rrr_mean), Q(1000000))>>,
           !.annual_event_rate =
              clamp(Div(tgt.events_prevented, EventDivisor(N, T, rrr_mean)),
                    Eps8, R(95, 100))]
    ELSE i1

\* a variant that stores deaths/E as it comes
StepDeaths_unclamped(i2, tgt, E) ==
    IF tgt.deaths_averted # None /\ Truthy(tgt.deaths_averted) /\ Gt(E, Zero)
    THEN [i2 EXCEPT !.case_fatality_rate = Div(tgt.deaths_averted, E)]
    ELSE i2

\* lines 610-611: deaths_averted
StepDeaths(i2, tgt, E) ==
    IF tgt.deaths_averted # None /\ Truthy(tgt.deaths_averted) /\ Gt(E, Zero)
    THEN [i2 EXCEPT !.case_fatality_rate =
              clamp(Div(tgt.deaths_averted, E), Zero, R(95, 100))]
    ELSE i2

\* lines 613-615
STotal(tgt) ==
    IF tgt.roi_ratio # None /\ tgt.investment # None
    THEN Mul(tgt.investment, Add(One, tgt.roi_ratio)) ELSE None

\* max(Q_min*1.01, investment/Cq), comparing investment/Cq/1.01 with Q_min
QMax(tgt, Q_min) ==
    IF Gt(Div(Div(tgt.investment, tgt.c_per_qaly), R(101, 100)), Q_min)
    THEN Div(tgt.investment, tgt.c_per_qaly)
    ELSE Mul(Q_min, R(101, 100))

QClamp(tgt, Q_current, Q_min) == Min(Max(Q_current, Q_min), QMax(tgt, Q_min))

\* lines 623-628; the floor of 1e-6 QALYs is 1e-9 thousand QALYs
QTarget(tgt, S_total, Q_current) ==
    IF S_total # None
    THEN QClamp(tgt, Q_current,
                Max(Eps9, Div(Sub(tgt.investment, S_total), tgt.c_per_qaly)))
    ELSE Max(Eps9, Q_current)

\* lines 635-638
SetEventCosts(i4, Ce_total, per_event_hc) ==
    LET per_event_prod == Max(Zero, Sub(Ce_total, per_event_hc))
    IN  [i4 EXCEPT
          !.event_cost_gamma = set_gamma_mean(@[1], per_event_hc),
          !.productivity_cost_gamma = set_gamma_mean(@[1], per_event_prod)]

\* lines 632-638
StepCosts(i4, tgt, flow, S_total, Q_tgt) ==
    IF S_total = None THEN i4
    ELSE LET Ce_total == Div(S_total, flow)
             S_hc == Min(Max(Sub(tgt.investment, Mul(tgt.c_per_qaly, Q_tgt)), Zero),
                         S_total)
             per_event_hc == Div(S_hc, flow)
         IN  SetEventCosts(i4, Ce_total, per_event_hc)

\* the divisor of line 629: D*(E/T)*max(u, 1e-9)
QalyDivisor(flow, u) == Mul(flow, Max(u, Eps9))

\* lines 629-630
StepQalyLoss(i3, tgt, flow, S_total, Q_tgt) ==
    LET qloss_needed == Sub(Div(Q_tgt, QalyDivisor(flow, i3.utility_weight)),
                            Mul(i3.case_fatality_rate, i3.life_years_lost_per_death))
    IN  StepCosts([i3 EXCEPT !.qalys_lost_per_event = Max(Eps6, qloss_needed)],
                  tgt, flow, S_total, Q_tgt)

\* lines 622-638, flow being D*(E/T)
StepQaly(i3, tgt, flow, S_total) ==
    LET Q_current == Mul(Mul(flow, Add(i3.qalys_lost_per_event,
                                       Mul(i3.case_fatality_rate,
                                           i3.life_years_lost_per_death))),
                         i3.utility_weight)
    IN  StepQalyLoss(i3, tgt, flow, S_total, QTarget(tgt, S_total, Q_current))

\* lines 640-642
Normalised(i5) ==
    [i5 EXCEPT
      !.event_cost_gamma = set_gamma_mean(@[1], Max(Zero, Mul(@[1], @[2]))),
      !.productivity_cost_gamma = set_gamma_mean(@[1], Max(Zero, Mul(@[1], @[2])))]

\* lines 613-642
StepEconomics(i3, tgt, T, D, E) ==
    Normalised(IF tgt.c_per_qaly # None /\ Truthy(tgt.c_per_qaly) /\ Gt(E, Zero)
               THEN StepQaly(i3, tgt, Mul(D, Div(E, T)), STotal(tgt))
               ELSE i3)

\* lines 599-642, E being the events of lines 604 and 608
CalibrateWith(intr, tgt, N, T, D, rrr_mean, E) ==
    StepEconomics(StepDeaths(StepEvents(StepInvestment(intr, tgt, N, D),
                                        tgt, N, T, rrr_mean),
                             tgt, E),
                  tgt, T, D, E)

CalibrateFrom(intr, tgt, N, T, D, rrr_mean) ==
    CalibrateWith(intr, tgt, N, T, D, rrr_mean, EventsOf(intr, tgt, N, T, rrr_mean))

\* the intervention record _calibrate_intervention stores back (lines 588-644)
calibrate_intervention(P, key, tgt) ==
    IF P.interventions[key].Result_population <= 0 THEN P.interventions[key]
    ELSE CalibrateFrom(P.interventions[key], tgt,
                       Q(P.interventions[key].Result_population),
                       Q(P.meta.horizon_years),
                       discount_sum(P.meta.horizon_years, P.health_system.discount_rate),
                       CalibRrrMean(P.interventions[key]))

(* ------------------------ divisions of calibration --------------------- *)
\* what a float division by zero raises
ZeroDivisionError == [kind |-> "ZeroDivisionError"]

IsZero(x) == ~IsNaN(x) /\ x[1] = 0

\* line 597: a/(a+b) on the Beta of a program without Lognormal
RrrFaults(intr) ==
    /\ Get(intr.rr_lognormal_exact, intr.rr_lognormal) = None
    /\ intr.rrr_beta # None
    /\ IsZero(Add(intr.rrr_beta[1], intr.rrr_beta[2]))

\* lines 622-634: the divisions by Cq, by D*(E/T)*max(u, 1e-9) and by D*(E/T)
EconomicsFaults(tgt, u, T, D, E) ==
    /\ tgt.c_per_qaly # None /\ Truthy(tgt.c_per_qaly) /\ Gt(E, Zero)
    /\ \/ IsZero(T)
       \/ STotal(tgt) # None /\ IsZero(tgt.c_per_qaly)
       \/ IsZero(QalyDivisor(Mul(D, Div(E, T)), u))
       \/ STotal(tgt) # None /\ IsZero(Mul(D, Div(E, T)))

\* lines 599-634: a divisor of the call is zero
FaultsWith(intr, tgt, N, T, D, rrr_mean, E) ==
    \/ tgt.investment # None /\ IsZero(Mul(N, D))
    \/ HasEvents(tgt) /\ IsZero(EventDivisor(N, T, rrr_mean))
    \/ tgt.deaths_averted # None /\ Truthy(tgt.deaths_averted) /\ Gt(E, Zero) /\ IsZero(E)
    \/ EconomicsFaults(tgt, intr.utility_weight, T, D, E)

FaultsFrom(intr, tgt, N, T, D, rrr_mean) ==
    FaultsWith(intr, tgt, N, T, D, rrr_mean, EventsOf(intr, tgt, N, T, rrr_mean))

\* _calibrate_intervention(key, tgt) raises ZeroDivisionError
calibrate_faults(P, key, tgt) ==
    /\ P.interventions[key].Result_population > 0
    /\ \/ RrrFaults(P.interventions[key])
       \/ FaultsFrom(P.interventions[key], tgt,
                     Q(P.interventions[key].Result_population),
                     Q(P.meta.horizon_years),
                     discount_sum(P.meta.horizon_years, P.health_system.discount_rate),
                     CalibRrrMean(P.interventions[key]))

(* ------------------------------- calibrate ----------------------------- *)
\* per_results is the dict _read_results returns, as the sequence of its
\* items <<key, target>> in insertion order; port_results is the portfolio
\* dict (None, NoKey: key absent)
NoKey == ""
PortResults(benefits_total, adjust_intervention) ==
    [benefits_total |-> benefits_total, adjust_intervention |-> adjust_intervention]

\* list(per_results.keys())
KeysOf(per_results) == [i \in 1..Len(per_results) |-> per_results[i][1]]

\* lines 649-651: one pass of the loop
CalibrateKnown(P, key, tgt) ==
    IF key \in Keys
    THEN [P EXCEPT !.interventions[key] = calibrate_intervention(P, key, tgt)]
    ELSE P

\* lines 649-651: the loop from item i on
RECURSIVE CalibrateEach(_, _, _)
CalibrateEach(P, per_results, i) ==
    IF i > Len(per_results) THEN P
    ELSE CalibrateEach(CalibrateKnown(P, per_results[i][1], per_results[i][2]),
                       per_results, i + 1)

\* the _calibrate_intervention calls of the loop
RECURSIVE CallsEach(_, _)
CallsEach(per_results, i) ==
    IF i > Len(per_results) THEN <<>>
    ELSE (IF per_results[i][1] \in Keys
          THEN <<[key |-> per_results[i][1], tgt |-> per_results[i][2]]>>
          ELSE <<>>) \o CallsEach(per_results, i + 1)

\* per_results.get(intr_key, {"investment": I_k})
RECURSIVE TargetFrom(_, _, _, _)
TargetFrom(per_results, i, intr_key, I_k) ==
    IF i > Len(per_results) THEN Target(I_k, None, None, None, None)
    ELSE IF per_results[i][1] = intr_key THEN per_results[i][2]
         ELSE TargetFrom(per_results, i + 1, intr_key, I_k)

\* lines 662-665: the target of the adjusted program, with its new roi_ratio
AdjustTarget(per_results, intr_key, I_k, S_k, delta) ==
    [TargetFrom(per_results, 1, intr_key, I_k) EXCEPT
       !.roi_ratio = Sub(Div(Max(Zero, Add(S_k, delta)), I_k), One)]

\* what calibrate() leaves: the table, the stored evaluation (Nil: none was
\* made), the calls of the portfolio branch, the returned record and the
\* exception
CalibrateResult(P, markov, calls, changes, error) ==
    [params |-> P, markov |-> markov, calls |-> calls, changes |-> changes,
     error |-> error]

Changes(per_results, portfolio_first, adjusted) ==
    [per_intervention |-> KeysOf(per_results), portfolio_first |-> portfolio_first,
     adjusted |-> adjusted]

\* the exception of line 658: `adjust_intervention` is not a name in scope
NameError == [kind |-> "NameError", message |-> "name 'adjust_intervention' is not defined"]

\* lines 666-669: the second calibration, with target t, and the evaluation
\* after it
Readjusted(P, per_results, intr_key, t) ==
    CalibrateResult(CalibrateKnown(P, intr_key, t),
                    MarkovOut(CalibrateKnown(P, intr_key, t), TRUE, 123),
                    <<[key |-> intr_key, tgt |-> t]>>,
                    Changes(per_results, TRUE, intr_key), None)

\* lines 659-669, from the evaluation m of line 653 and delta of line 655
Adjust(P, per_results, intr_key, m, I_k, S_k, delta) ==
    IF Gt(I_k, Zero)
    THEN Readjusted(P, per_results, intr_key,
                    AdjustTarget(per_results, intr_key, I_k, S_k, delta))
    ELSE CalibrateResult(P, m, <<>>, Changes(per_results, FALSE, NoKey), None)

\* lines 654-669, m being the evaluation of line 653 and intr_key the key
\* of line 656
PortfolioBranch(P, per_results, port_results, m, intr_key) ==
    IF intr_key \notin Keys
    THEN CalibrateResult(P, m, <<>>, None, NameError)
    ELSE Adjust(P, per_results, intr_key, m,
                m.per_intervention[intr_key].investment,
                Add(m.per_intervention[intr_key].hc_savings,
                    m.per_intervention[intr_key].soc_savings),
                Sub(port_results.benefits_total,
                    Add(m.portfolio.hc_savings, m.portfolio.soc_savings)))

\* port_results.get("adjust_intervention", "alzheimers")
AdjustKey(port_results) ==
    IF port_results.adjust_intervention = NoKey THEN "alzheimers"
    ELSE port_results.adjust_intervention

\* lines 652-670, P being the table after the loop
AfterLoop(P, per_results, port_results) ==
    IF Truthy(port_results.benefits_total)
    THEN PortfolioBranch(P, per_results, port_results, MarkovOut(P, TRUE, 123),
                         AdjustKey(port_results))
    ELSE CalibrateResult(P, Nil, <<>>, Changes(per_results, FALSE, NoKey), None)

\* lines 649-651: a call of the loop raises
RECURSIVE LoopFaults(_, _, _)
LoopFaults(P, per_results, i) ==
    /\ i <= Len(per_results)
    /\ \/ per_results[i][1] \in Keys
             /\ calibrate_faults(P, per_results[i][1], per_results[i][2])
       \/ LoopFaults(CalibrateKnown(P, per_results[i][1], per_results[i][2]),
                     per_results, i + 1)

\* calibrate() on what _read_results returned
CalibrateOut(P, per_results, port_results) ==
    IF LoopFaults(P, per_results, 1)
    THEN CalibrateResult(P, Nil, <<>>, None, ZeroDivisionError)
    ELSE AfterLoop(CalibrateEach(P, per_results, 1), per_results, port_results)

(* ---------------------------- state machine ---------------------------- *)
\* the default seeds of run_monte_carlo and run_markov_models
Seeds == {42, 123}
\* run_markov_models(deterministic, seed): with its defaults, and as one
\* stochastic pass
MarkovArgs == {<<TRUE, 123>>, <<FALSE, 42>>}
\* the iteration counts of a Monte Carlo batch
Iterations == {1, MaxIter}

\* the targets a caller supplies for one program
CalibTargets ==
    { Target(R(36, 5), None, None, None, None),
      Target(None, R(24, 5), R(6, 5), None, None) }

\* a key of no program of the table
UnknownKey == "stroke"
EmptyTarget == Target(None, None, None, None, None)

\* what _read_results can find: nothing, one row, a row of an unknown
\* program, rows of several programs, a row without fields, a row with a
\* cost per QALY alone
PerResults ==
    { <<>>,
      <<<<"cvd", Target(R(36, 5), None, None, None, None)>>>>,
      <<<<UnknownKey, Target(R(36, 5), None, None, None, None)>>>>,
      <<<<"diabetes", Target(None, R(24, 5), R(6, 5), None, None)>>,
        <<UnknownKey, Target(R(36, 5), None, None, None, None)>>>>,
      <<<<"cvd", EmptyTarget>>>>,
      <<<<"diabetes", Target(None, None, None, None, Q(3))>>>> }

\* no portfolio file, and a benefits_total to be met by adjusting a known
\* or an unknown program
PortfolioTargets ==
    { PortResults(None, NoKey),
      PortResults(Q(12), "cvd"),
      PortResults(Q(12), UnknownKey) }

Init ==
    /\ default_params \in ParamTables
    /\ loaded = FALSE
    /\ results = [markov |-> Nil, monte_carlo |-> Nil, roi |-> Nil]
    /\ rng = -1
    /\ samples = <<>>
    /\ markov_hist = <<>>
    /\ mc_watch = Nil
    /\ last_mc = <<0, 0>>
    /\ calibrated = <<>>
    /\ n_calib = 0
    /\ load_error = None
    /\ last_calibrate = Nil
    /\ last_op = "__init__"
    /\ run_error = None
    /\ OthersIdle

\* load_parameters: binds self.parameters, validates (an assert failure
\* leaves the table untouched but bound), derives, copies and rounds
load_parameters ==
    /\ UNCHANGED others
    /\ loaded' = TRUE
    /\ default_params' = IF Valid(default_params) THEN LoadedParams(default_params)
                         ELSE default_params
    /\ markov_hist' = <<>>
    /\ mc_watch' = Nil
    /\ calibrated' = <<>>
    /\ load_error' = IF Valid(default_params) THEN None ELSE AssertionError
    /\ last_op' = "load_parameters"
    /\ UNCHANGED <<results, rng, samples, last_mc, n_calib, last_calibrate, run_error>>

\* what run_markov_models(deterministic=True) stores
Stored(m) == [per_intervention |-> m.per_intervention, portfolio |-> m.portfolio]

\* calibrate(), per_results and port_results being what _read_results finds
calibrate(per_results, port_results) ==
    /\ UNCHANGED others
    /\ loaded
    /\ n_calib < MaxCalib
    /\ \E out \in {CalibrateOut(parameters, per_results, port_results)} :
          /\ default_params' = out.params
          /\ results' = IF out.markov = Nil THEN results
                        ELSE [results EXCEPT !.markov = Stored(out.markov)]
          /\ rng' = IF out.markov = Nil THEN rng ELSE out.markov.rng
          /\ markov_hist' =
                IF out.markov = Nil THEN <<>>
                ELSE <<[deterministic |-> TRUE, seed |-> 123, out |-> Stored(out.markov)]>>
          /\ calibrated' = calibrated \o CallsEach(per_results, 1) \o out.calls
          /\ last_calibrate' =
                [per_results |-> per_results, port_results |-> port_results,
                 calls |-> CallsEach(per_results, 1) \o out.calls,
                 changes |-> out.changes, error |-> out.error]
    /\ mc_watch' = Nil
    /\ n_calib' = n_calib + 1
    /\ last_op' = "calibrate"
    /\ UNCHANGED <<loaded, samples, last_mc, load_error, run_error>>

\* a run other than the watched one makes the watched summary "interleaved"
Interleave(w) ==
    IF w # Nil /\ w.phase = "fresh" THEN [w EXCEPT !.phase = "interleaved"] ELSE w

run_markov_models(deterministic, seed) ==
    /\ UNCHANGED others
    /\ loaded
    /\ IF ~deterministic /\ PassRaises(parameters)
       THEN /\ run_error' = ValueError
            /\ UNCHANGED <<results, rng, markov_hist, mc_watch>>
       ELSE /\ \E out \in {MarkovOut(parameters, deterministic, seed)} :
                  /\ results' = [results EXCEPT !.markov = Stored(out)]
                  /\ rng' = out.rng
            /\ markov_hist' =
                  IF markov_hist = <<>>
                  THEN <<[deterministic |-> deterministic, seed |-> seed,
                          out |-> results'.markov]>>
                  ELSE <<markov_hist[Len(markov_hist)],
                         [deterministic |-> deterministic, seed |-> seed,
                          out |-> results'.markov]>>
            /\ mc_watch' = Interleave(mc_watch)
            /\ run_error' = None
    /\ last_op' = "run_markov_models"
    /\ UNCHANGED <<default_params, loaded, samples, last_mc, calibrated, n_calib,
                   load_error, last_calibrate>>

\* a variant that leaves in the table the effective shape and scale it
\* samples the programme cost with (line 429)
run_monte_carlo_inplace(n, seed) ==
    /\ UNCHANGED others
    /\ loaded
    /\ IF PassRaises(parameters)
       THEN /\ run_error' = ValueError
            /\ UNCHANGED <<results, samples, rng, mc_watch, last_mc>>
       ELSE /\ \E out \in {MonteCarloOut(parameters, n, seed)} :
                  /\ results' = [results EXCEPT !.monte_carlo = out.summary]
                  /\ samples' = out.iters
                  /\ rng' = out.rng
            /\ mc_watch' =
                  IF mc_watch = Nil
                  THEN [args |-> <<seed, n>>, summary |-> results'.monte_carlo,
                        phase |-> "fresh"]
                  ELSE IF mc_watch.args # <<seed, n>> THEN Interleave(mc_watch)
                       ELSE IF mc_watch.phase = "interleaved"
                            THEN [mc_watch EXCEPT !.phase = "repeated"]
                            ELSE mc_watch
            /\ last_mc' = <<seed, n>>
            /\ run_error' = None
    /\ last_op' = "run_monte_carlo"
    /\ default_params' =
          [default_params EXCEPT
             !.interventions =
                [k \in Keys |->
                   [default_params.interventions[k] EXCEPT
                      !.cost_ppy_gamma_exact =
                         IF @ = None THEN @
                         ELSE <<Max(@[1], Q(1000000)),
                                Div(Mul(@[1], @[2]), Max(@[1], Q(1000000)))>>]]]
    /\ UNCHANGED <<loaded, markov_hist, calibrated, n_calib, load_error, last_calibrate>>

\* run_monte_carlo(n_iterations, seed): the batch, or the exception of its
\* first iteration (the loop of lines 496-504 has no handler)
run_monte_carlo(n, seed) ==
    /\ UNCHANGED others
    /\ loaded
    /\ IF PassRaises(parameters)
       THEN /\ run_error' = ValueError
            /\ UNCHANGED <<results, samples, rng, mc_watch, last_mc>>
       ELSE /\ \E out \in {MonteCarloOut(parameters, n, seed)} :
                  /\ results' = [results EXCEPT !.monte_carlo = out.summary]
                  /\ samples' = out.iters
                  /\ rng' = out.rng
            /\ mc_watch' =
                  IF mc_watch = Nil
                  THEN [args |-> <<seed, n>>, summary |-> results'.monte_carlo,
                        phase |-> "fresh"]
                  ELSE IF mc_watch.args # <<seed, n>> THEN Interleave(mc_watch)
                       ELSE IF mc_watch.phase = "interleaved"
                            THEN [mc_watch EXCEPT !.phase = "repeated"]
                            ELSE mc_watch
            /\ last_mc' = <<seed, n>>
            /\ run_error' = None
    /\ last_op' = "run_monte_carlo"
    /\ UNCHANGED <<default_params, loaded, markov_hist, calibrated, n_calib,
                   load_error, last_calibrate>>

calculate_roi ==
    /\ UNCHANGED others
    /\ results.markov # Nil
    /\ results' = [results EXCEPT !.roi = RoiOut(results.markov.portfolio)]
    /\ last_op' = "calculate_roi"
    /\ UNCHANGED <<default_params, loaded, rng, samples, markov_hist, mc_watch,
                   last_mc, calibrated, n_calib, load_error, last_calibrate,
                   run_error>>

\* loading, calibration and the single-pass evaluations
Next ==
    \/ load_parameters
    \/ \E key \in Keys, tgt \in CalibTargets :
          calibrate(<<<<key, tgt>>>>, PortResults(None, NoKey))
    \/ \E a \in MarkovArgs : run_markov_models(a[1], a[2])

Spec == Init /\ [][Next]_vars

\* the same with the return-on-investment report
NextRoi ==
    \/ Next
    \/ calculate_roi

SpecRoi == Init /\ [][NextRoi]_vars

\* Monte Carlo batches on an uncalibrated table, interleaved with
\* deterministic evaluations
NextMC ==
    \/ load_parameters
    \/ run_markov_models(TRUE, 123)
    \/ \E n \in Iterations, seed \in Seeds : run_monte_carlo(n, seed)

SpecMC == Init /\ [][NextMC]_vars

\* the single-pass engine on the tables at the edges of the input domain
InitEdge ==
    /\ default_params \in EdgeTables
    /\ loaded = FALSE
    /\ results = [markov |-> Nil, monte_carlo |-> Nil, roi |-> Nil]
    /\ rng = -1
    /\ samples = <<>>
    /\ markov_hist = <<>>
    /\ mc_watch = Nil
    /\ last_mc = <<0, 0>>
    /\ calibrated = <<>>
    /\ n_calib = 0
    /\ load_error = None
    /\ last_calibrate = Nil
    /\ last_op = "__init__"
    /\ run_error = None
    /\ OthersIdle

SpecEdge == InitEdge /\ [][Next]_vars

\* the report pipeline (evaluation, return on investment, Monte Carlo) on
\* the tables with nothing invested or nothing gained
InitZero ==
    /\ default_params \in ZeroTables
    /\ loaded = FALSE
    /\ results = [markov |-> Nil, monte_carlo |-> Nil, roi |-> Nil]
    /\ rng = -1
    /\ samples = <<>>
    /\ markov_hist = <<>>
    /\ mc_watch = Nil
    /\ last_mc = <<0, 0>>
    /\ calibrated = <<>>
    /\ n_calib = 0
    /\ load_error = None
    /\ last_calibrate = Nil
    /\ last_op = "__init__"
    /\ run_error = None
    /\ OthersIdle

NextZero ==
    \/ NextMC
    \/ calculate_roi

SpecZero == InitZero /\ [][NextZero]_vars

\* calibration from every combination of result files, and the evaluation
NextCalib ==
    \/ load_parameters
    \/ \E per_results \in PerResults, port_results \in PortfolioTargets :
          calibrate(per_results, port_results)
    \/ run_markov_models(TRUE, 123)

SpecCalib == Init /\ [][NextCalib]_vars

\* Monte Carlo batches on the tables with an invalid distribution
InitFault ==
    /\ default_params \in FaultTables
    /\ loaded = FALSE
    /\ results = [markov |-> Nil, monte_carlo |-> Nil, roi |-> Nil]
    /\ rng = -1
    /\ samples = <<>>
    /\ markov_hist = <<>>
    /\ mc_watch = Nil
    /\ last_mc = <<0, 0>>
    /\ calibrated = <<>>
    /\ n_calib = 0
    /\ load_error = None
    /\ last_calibrate = Nil
    /\ last_op = "__init__"
    /\ run_error = None
    /\ OthersIdle

SpecFault == InitFault /\ [][NextMC]_vars

(* ------------------------------ properties ----------------------------- *)
\* results["markov"] was computed from the current parameters
MarkovCurrent == markov_hist # <<>>
LastMarkov == markov_hist[Len(markov_hist)]
\* the last load validated (the *_exact copies exist)
LoadedOk == loaded /\ default_params.portfolio_adjustments_exact # None
\* what the simulator computes for each program on the current parameters,
\* with the arguments of the last run_markov_models
SimNow == per_intervention(parameters, default_rng(LastMarkov.seed),
                           LastMarkov.deterministic).per
AdjNow == Get(parameters.portfolio_adjustments_exact, parameters.portfolio_adjustments)
\* exactly one calibration since a validated load, then a deterministic run
CalibratedRun ==
    /\ LoadedOk /\ Len(calibrated) = 1
    /\ MarkovCurrent /\ LastMarkov.deterministic
    /\ parameters.interventions[calibrated[1].key].Result_population > 0

\* C1: after load, calibrate(program, {investment: X}) with X > 0 and N > 0,
\* and a deterministic run, the program's investment in the breakdown is X.
C1_InvestmentRoundTrip ==
    (CalibratedRun /\ calibrated[1].tgt.investment # None
                   /\ Gt(calibrated[1].tgt.investment, Zero))
    => results.markov.per_intervention[calibrated[1].key].investment
          = calibrated[1].tgt.investment

\* the relative-risk-reduction mean the calibrator uses for a program
RrrMean(key) ==
    Sub(One, lognormal_mean(parameters.interventions[key].rr_lognormal_exact))

\* C2: after load, calibrate(program, {events_prevented: E, deaths_averted:
\* Dth}) with E/(N T rrr_mean) in [1e-8, 0.95] and Dth/E in [0, 0.95], and a
\* deterministic run, the program's breakdown has events_prevented = E and
\* deaths_averted = Dth.
C2_OutcomeRoundTrip ==
    LET c == calibrated[1]
        E == c.tgt.events_prevented
        Dth == c.tgt.deaths_averted
        N == Q(parameters.interventions[c.key].Result_population)
        ratio == Div(E, Mul(Mul(N, Q(parameters.meta.horizon_years)), RrrMean(c.key)))
    IN  (CalibratedRun /\ E # None /\ Dth # None
           /\ Le(Eps8, ratio) /\ Le(ratio, R(95, 100))
           /\ Le(Zero, Div(Dth, E)) /\ Le(Div(Dth, E), R(95, 100)))
        => /\ results.markov.per_intervention[c.key].events_prevented = E
           /\ results.markov.per_intervention[c.key].deaths_averted = Dth

\* C3: two consecutive deterministic runs with no load or calibrate between
\* them return the same portfolio and the same per-program breakdown.
C3_DeterministicIdempotent ==
    (Len(markov_hist) = 2 /\ markov_hist[1].deterministic /\ markov_hist[2].deterministic)
    => markov_hist[1].out = markov_hist[2].out

\* two deterministic runs in a row on a table whose mortality multiplier is
\* not 1 and whose programs avert deaths (the rescaling acted both times)
C3_Witness ==
    /\ Len(markov_hist) = 2 /\ markov_hist[1].deterministic /\ markov_hist[2].deterministic
    /\ AdjNow.mortality_synergy # One
    /\ results.markov.portfolio.deaths_averted # Zero
    /\ \E k \in Keys : results.markov.per_intervention[k].deaths_averted
                          # SimNow[k].deaths_averted

\* C4: a run_monte_carlo with the seed and iteration count of an earlier one
\* on unmutated parameters returns the earlier summary, whatever ran between.
C4_MonteCarloReproducible ==
    (mc_watch # Nil /\ last_mc = mc_watch.args)
    => results.monte_carlo = mc_watch.summary

\* the watched batch was repeated after another run had intervened
C4_Witness ==
    /\ mc_watch # Nil /\ last_mc = mc_watch.args /\ mc_watch.phase = "repeated"
    /\ Len(samples) >= 1
    /\ \E k \in Keys : samples[1].per[k].hc_savings # Zero

\* C5: every metric's reported mean, median, std and 95% interval are the
\* statistics (mean, median, ddof-1 std, 2.5th/97.5th percentile) of the
\* collected samples of that metric.
C5_SummaryIsSampleStatistics ==
    (LoadedOk /\ mc_watch # Nil)
    => \A i \in 1..Len(Metrics) :
          results.monte_carlo[Metrics[i]] = summarize(Column(samples, Metrics[i]))

\* C6: every Monte Carlo iteration's portfolio values are the deterministic
\* aggregation (sums times the adjustment multipliers) of its per-program
\* results.
C6_IterationUsesAggregator ==
    (LoadedOk /\ mc_watch # Nil)
    => \A i \in 1..Len(samples) :
          LET agg == AdjustPortfolio(PortfolioSums(samples[i].per), AdjNow)
          IN  \A f \in Fields \cup {"total_savings"} : samples[i].vals[f] = agg[f]

\* C7: the portfolio investment is the sum of the per-program investments,
\* whatever the adjustment multipliers.
C7_InvestmentUnadjusted ==
    MarkovCurrent
    => /\ results.markov.portfolio.investment
            = SumField(results.markov.per_intervention, "investment")
       /\ results.markov.portfolio.investment = SumField(SimNow, "investment")

\* an evaluation with every multiplier different from 1 and money invested
C7_Witness ==
    /\ MarkovCurrent
    /\ \A f \in DOMAIN AdjNow : AdjNow[f] # One
    /\ Gt(results.markov.portfolio.investment, Zero)
    /\ \A k \in Keys : Gt(results.markov.per_intervention[k].investment, Zero)

\* C8: after a deterministic run the rescaled per-program deaths sum to the
\* adjusted portfolio deaths, which are the unadjusted sum times
\* mortality_synergy (also when that sum is zero).
C8_DeathsReconciled ==
    (MarkovCurrent /\ LastMarkov.deterministic)
    => /\ SumField(results.markov.per_intervention, "deaths_averted")
            = results.markov.portfolio.deaths_averted
       /\ results.markov.portfolio.deaths_averted
            = Mul(SumField(SimNow, "deaths_averted"), AdjNow.mortality_synergy)

\* a deterministic run with deaths averted and a mortality multiplier not 1
C8_Witness ==
    /\ MarkovCurrent /\ LastMarkov.deterministic
    /\ AdjNow.mortality_synergy # One
    /\ Gt(SumField(SimNow, "deaths_averted"), Zero)

\* the zero case of C8: a deterministic run in which no program averts deaths
C8_ZeroCase ==
    /\ MarkovCurrent /\ LastMarkov.deterministic
    /\ AdjNow.mortality_synergy # One
    /\ SumField(SimNow, "deaths_averted") = Zero
    /\ Gt(SumField(SimNow, "events_prevented"), Zero)

\* the adjusted totals port are the sums, each multiplied once
MultipliersOnce(port, sums, adj) ==
    /\ port.events_prevented = Mul(sums.events_prevented, adj.overlap_events)
    /\ port.deaths_averted = Mul(sums.deaths_averted, adj.mortality_synergy)
    /\ port.qalys = Mul(sums.qalys, adj.qaly_synergy)
    /\ port.hc_savings
          = Mul(Mul(sums.hc_savings, adj.hc_realization), adj.benefit_synergy)
    /\ port.soc_savings
          = Mul(Mul(sums.soc_savings, adj.prod_realization), adj.benefit_synergy)
    /\ port.total_savings = Add(port.hc_savings, port.soc_savings)

\* C9: in one evaluation each multiplier is applied once, to the sums:
\* events * overlap_events, deaths * mortality_synergy, qalys * qaly_synergy,
\* hc_savings * hc_realization * benefit_synergy, soc_savings *
\* prod_realization * benefit_synergy, total_savings = hc + soc (adjusted).
C9_MultipliersOnce ==
    MarkovCurrent
    => MultipliersOnce(results.markov.portfolio, PortfolioSums(SimNow), AdjNow)

\* an evaluation under the societal perspective with every multiplier
\* different from 1 and every sum positive
C9_Witness ==
    /\ MarkovCurrent
    /\ parameters.meta.perspective = "societal"
    /\ \A f \in DOMAIN AdjNow : AdjNow[f] # One
    /\ \A f \in Fields : Gt(SumField(SimNow, f), Zero)

\* C10: in the breakdown returned by a deterministic run, each program's
\* investment, hc_savings, soc_savings, qalys and events_prevented are the
\* values the simulator computed.
C10_BreakdownFrame ==
    (MarkovCurrent /\ LastMarkov.deterministic)
    => \A k \in Keys : \A f \in Fields \ {"deaths_averted"} :
          results.markov.per_intervention[k][f] = SimNow[k][f]

\* a deterministic run whose reconciliation changed some program's deaths
\* while events were prevented under an overlap multiplier different from 1
C10_Witness ==
    /\ MarkovCurrent /\ LastMarkov.deterministic
    /\ AdjNow.overlap_events # One
    /\ \E k \in Keys :
          /\ results.markov.per_intervention[k].deaths_averted # SimNow[k].deaths_averted
          /\ Gt(results.markov.per_intervention[k].events_prevented, Zero)

\* C11: a program whose population N is zero or negative gets an all-zero
\* result from one evaluation of the simulator, deterministic or stochastic:
\* investment, hc_savings, soc_savings, qalys, events_prevented and
\* deaths_averted are 0.
C11_EmptyPopulationZero ==
    MarkovCurrent
    => \A k \in Keys :
          parameters.interventions[k].Result_population <= 0
          => /\ \A f \in Fields : SimNow[k][f] = Zero
             /\ \A f \in Fields \ {"deaths_averted"} :
                   results.markov.per_intervention[k][f] = Zero

\* the case N = 0 of C11: an evaluation of a program with no one enrolled
C11_ZeroCase ==
    /\ MarkovCurrent
    /\ \E k \in Keys :
          /\ parameters.interventions[k].Result_population = 0
          /\ \A f \in Fields : results.markov.per_intervention[k][f] = Zero

\* the relative-risk reduction a program's stored result was computed with:
\* events_prevented = N * p_event * rrr * T
RrrUsed(k) ==
    Div(results.markov.per_intervention[k].events_prevented,
        Mul(Mul(Q(parameters.interventions[k].Result_population),
                Get(parameters.interventions[k].annual_event_rate_exact,
                    parameters.interventions[k].annual_event_rate)),
            Q(parameters.meta.horizon_years)))

\* the program is simulated on the Lognormal path
OnLognormal(k) ==
    Get(parameters.interventions[k].rr_lognormal_exact,
        parameters.interventions[k].rr_lognormal) # None

C12_LowClamp ==
    MarkovCurrent /\ \E k \in Keys : OnLognormal(k) /\ RrrUsed(k) = Sub(One, Eps6)
C12_BetaPath ==
    /\ MarkovCurrent
    /\ \E k \in Keys : ~OnLognormal(k) /\ HasBeta(parameters.interventions[k].rrr_beta)
                        /\ ~IsNaN(RrrUsed(k))
C12_DefaultPath ==
    /\ MarkovCurrent
    /\ \E k \in Keys : ~OnLognormal(k) /\ ~HasBeta(parameters.interventions[k].rrr_beta)
                        /\ RrrUsed(k) = R(1, 5)

\* roi and icer of an iteration record, from its own sums
RoiGuarded(v) ==
    IF Gt(v.investment, Zero)
    THEN v.roi = Div(Sub(v.total_savings, v.investment), v.investment)
    ELSE v.roi = Zero
IcerGuarded(v) ==
    IF Gt(v.qalys, Zero)
    THEN v.icer = Div(Sub(v.investment, v.total_savings), v.qalys)
    ELSE IsNaN(v.icer)

\* C13: in every Monte Carlo iteration roi is (total_savings - investment) /
\* investment when investment > 0 and 0 otherwise, icer is (investment -
\* total_savings) / qalys when qalys > 0 and NaN otherwise; and calculate_roi
\* reports roi_ratio = roi_percentage = 0 when the investment is 0.
C13_ZeroRecovered ==
    /\ \A i \in 1..Len(samples) :
          RoiGuarded(samples[i].vals) /\ IcerGuarded(samples[i].vals)
    /\ (results.roi # Nil /\ results.roi.total_investment = Zero)
          => (results.roi.roi_ratio = Zero /\ results.roi.roi_percentage = Zero)

\* a batch without investment (roi 0, icer NaN) after a report on a
\* portfolio without investment
C13_Witness ==
    /\ Len(samples) >= 1
    /\ samples[1].vals.investment = Zero /\ samples[1].vals.roi = Zero
    /\ samples[1].vals.qalys = Zero /\ IsNaN(samples[1].vals.icer)
    /\ results.roi # Nil /\ results.roi.total_investment = Zero
    /\ results.roi.roi_ratio = Zero

\* C13, the other cases: a batch with investment and no QALYs, and a batch
\* with both
C13_NoQalys ==
    /\ Len(samples) >= 1
    /\ Gt(samples[1].vals.investment, Zero) /\ samples[1].vals.roi = Q(-1)
    /\ samples[1].vals.qalys = Zero /\ IsNaN(samples[1].vals.icer)
C13_Positive ==
    /\ Len(samples) >= 1
    /\ Gt(samples[1].vals.investment, Zero) /\ Gt(samples[1].vals.qalys, Zero)
    /\ ~IsNaN(samples[1].vals.icer) /\ samples[1].vals.roi # Zero

\* the paths of the fields of a table that are outside their bounds
OffendingFields(P) ==
    (IF P.meta.horizon_years <= 0 THEN {"meta.horizon_years"} ELSE {})
    \cup (IF Le(Zero, P.health_system.discount_rate)
             /\ Le(P.health_system.discount_rate, R(1, 5))
          THEN {} ELSE {"health_system.discount_rate"})
    \cup UNION { (IF Le(Zero, P.interventions[k].annual_event_rate)
                     /\ Le(P.interventions[k].annual_event_rate, One)
                  THEN {} ELSE {k \o ".annual_event_rate"})
                 \cup (IF Le(Zero, P.interventions[k].case_fatality_rate)
                          /\ Le(P.interventions[k].case_fatality_rate, One)
                       THEN {} ELSE {k \o ".case_fatality_rate"})
                 \cup (IF Lt(Zero, P.interventions[k].utility_weight)
                          /\ Le(P.interventions[k].utility_weight, One)
                       THEN {} ELSE {k \o ".utility_weight"}) : k \in Keys }

\* C14: load fails whenever the horizon is <= 0, the discount rate is
\* outside [0, 0.2], a program's annual_event_rate or case_fatality_rate is
\* outside [0, 1] or its utility_weight is outside (0, 1]; the failure names
\* an offending field and no run proceeds on the table; a table within the
\* bounds loads without error.
C14_LoadFatal ==
    loaded
    => IF OffendingFields(parameters) = {}
       THEN load_error = None /\ LoadedOk
       ELSE /\ load_error # None
            /\ load_error.message \in OffendingFields(parameters)
            /\ results.markov = Nil /\ results.monte_carlo = Nil

\* the parts of C14 the program keeps: a load of a table outside the bounds
\* raises and leaves the table as it was, a load of a table within them
\* does not raise
C14_Raises ==
    loaded => (load_error # None <=> OffendingFields(parameters) # {})
C14_RaisedCase ==
    loaded /\ load_error # None /\ parameters.portfolio_adjustments_exact = None

\* the keys a calibrate() call was asked to calibrate: those of the
\* per-program targets and, with a benefits_total, the program to adjust
NamedKeys(c) ==
    {c.per_results[i][1] : i \in 1..Len(c.per_results)}
    \cup (IF Truthy(c.port_results.benefits_total)
          THEN {AdjustKey(c.port_results)} ELSE {})

\* the keys a change record lists
ListedKeys(changes) ==
    {changes.per_intervention[i] : i \in 1..Len(changes.per_intervention)}
    \cup (IF changes.adjusted = NoKey THEN {} ELSE {changes.adjusted})

\* C15: a calibrate() whose targets name a key that is not a loaded program
\* fails with an error, and a change record never lists such a key.
C15_UnknownKeyFatal ==
    (LoadedOk /\ last_calibrate # Nil)
    => /\ (NamedKeys(last_calibrate) \ Keys # {}) => last_calibrate.error # None
       /\ last_calibrate.changes # None
            => ListedKeys(last_calibrate.changes) \subseteq Keys

\* the part of C15 the program keeps: an unknown adjust_intervention fails
C15_UnknownAdjustFatal ==
    (last_calibrate # Nil /\ Truthy(last_calibrate.port_results.benefits_total)
       /\ AdjustKey(last_calibrate.port_results) \notin Keys)
    => last_calibrate.error # None /\ last_calibrate.changes = None
C15_UnknownAdjustCase ==
    /\ last_calibrate # Nil /\ last_calibrate.error # None
    /\ AdjustKey(last_calibrate.port_results) \notin Keys

\* the parameters the step of a target field writes (lines 599-638)
WrittenBy(field) ==
    CASE field = "investment" -> {"cost_ppy_gamma"}
      [] field = "events_prevented" -> {"rrr_beta", "annual_event_rate"}
      [] field = "deaths_averted" -> {"case_fatality_rate"}
      [] field = "roi_ratio" -> {"event_cost_gamma", "productivity_cost_gamma"}
      [] field = "c_per_qaly" -> {"qalys_lost_per_event", "event_cost_gamma",
                                  "productivity_cost_gamma"}

\* the target fields absent from every call made for program k
AbsentFields(calls, k) ==
    {f \in DOMAIN EmptyTarget :
        \A i \in 1..Len(calls) : calls[i].key = k => calls[i].tgt[f] = None}

C17_RunsReadOnly ==
    [][last_op' \in {"run_markov_models", "run_monte_carlo", "calculate_roi"}
       => default_params' = default_params]_vars

\* the three read-only operations have all run on a loaded table
C17_Witness ==
    /\ LoadedOk /\ last_op = "calculate_roi"
    /\ MarkovCurrent /\ mc_watch # Nil /\ Len(samples) = MaxIter
    /\ results.roi.total_investment = results.markov.portfolio.investment

\* C18: a failure in one Monte Carlo iteration does not abort the batch:
\* run_monte_carlo never raises, it performs all its iterations (a failed
\* one is recorded with NaN) and stores the summary of the others.
C18_IterationFailureContained ==
    (LoadedOk /\ last_op = "run_monte_carlo")
    => /\ run_error = None
       /\ results.monte_carlo # Nil
       /\ Len(samples) \in Iterations

\* the case without failure: a batch on valid distributions returns
C18_ValidCase ==
    /\ LoadedOk /\ last_op = "run_monte_carlo" /\ run_error = None
    /\ Len(samples) = MaxIter /\ results.monte_carlo # Nil

\* iteration i of a batch as a worker evaluates it on its own: the draws of
\* the generator the program derives from the seed (line 493; the iteration
\* index is not an input of the seeding)
IterationAlone(seed, i) == per_intervention(parameters, default_rng(seed), FALSE).per

\* C19: the draws of Monte Carlo iteration i depend only on the seed and on
\* i, not on the draws earlier iterations consumed: every iteration of a
\* batch has the per-program results it has when evaluated on its own, so
\* any order or partition of the iterations gives the same results.
C19_IterationOwnStream ==
    (LoadedOk /\ last_op = "run_monte_carlo" /\ run_error = None)
    => \A i \in 1..Len(samples) : samples[i].per = IterationAlone(last_mc[1], i)

\* the part of C19 the program keeps: the first iteration of a batch does
\* not depend on the size of the batch
C19_FirstIteration ==
    (LoadedOk /\ last_op = "run_monte_carlo" /\ run_error = None)
    => samples[1].per = IterationAlone(last_mc[1], 1)
C19_BatchCase ==
    /\ LoadedOk /\ last_op = "run_monte_carlo" /\ run_error = None
    /\ Len(samples) = MaxIter
    /\ samples[MaxIter].per # samples[1].per

\* the programs _calibrate_intervention was called for, in call order
CalledKeys(calls) == [i \in 1..Len(calls) |-> calls[i].key]

\* C20: calibration is single-pass: within one calibrate() call no program
\* is calibrated a second time, the portfolio-level benefits_total
\* adjustment included.
C20_CalibratedOnce ==
    (LoadedOk /\ last_calibrate # Nil /\ last_calibrate.error = None)
    => \A i, j \in 1..Len(last_calibrate.calls) :
          i # j => CalledKeys(last_calibrate.calls)[i] # CalledKeys(last_calibrate.calls)[j]

\* the part of C20 the program keeps: the loop over the per-program targets
\* (lines 649-651) calibrates every program at most once
C20_LoopOnce ==
    (LoadedOk /\ last_calibrate # Nil)
    => \A i, j \in 1..Len(CallsEach(last_calibrate.per_results, 1)) :
          i # j => CallsEach(last_calibrate.per_results, 1)[i].key
                     # CallsEach(last_calibrate.per_results, 1)[j].key

\* a call whose portfolio adjustment is the only calibration of its program
C20_SinglePassCase ==
    /\ LoadedOk /\ last_calibrate # Nil /\ last_calibrate.error = None
    /\ last_calibrate.changes.portfolio_first
    /\ Len(last_calibrate.calls) = 1

(* ----------------------------- discount_sum ---------------------------- *)
\* the discount rates discount_sum is called with
Rates == {Zero, R(1, 100), R(3, 100), R(1, 9), R(1, 5), R(1, 4), One, Q(3)}

\* the engine is not used: a UAEHealthAnalysis object as constructed
EngineIdle ==
    /\ default_params = ParamTable(2, Zero, "societal", LiteralAdjustments, TRUE)
    /\ loaded = FALSE
    /\ results = [markov |-> Nil, monte_carlo |-> Nil, roi |-> Nil]
    /\ rng = -1
    /\ samples = <<>>
    /\ markov_hist = <<>>
    /\ mc_watch = Nil
    /\ last_mc = <<0, 0>>
    /\ calibrated = <<>>
    /\ n_calib = 0
    /\ load_error = None
    /\ last_calibrate = Nil
    /\ last_op = "__init__"
    /\ run_error = None

\* a horizon is chosen; no call has been made on it
InitDiscount ==
    /\ EngineIdle
    /\ discount \in {[T |-> T, r |-> None, ret |-> None, before |-> Nil] : T \in 1..MaxHorizon}
    /\ PsaIdle
    /\ MarkovIdle
    /\ CostIdle

\* discount_sum(T, r) is called and returns; the call before it is kept
discount_sum_call(r) ==
    /\ discount' = [T |-> discount.T, r |-> r, ret |-> discount_sum(discount.T, r),
                    before |-> IF discount.r = None THEN Nil
                               ELSE [r |-> discount.r, ret |-> discount.ret]]
    /\ UNCHANGED <<engine, psaVars, markovVars, costVars>>

NextDiscount == \E r \in Rates : discount_sum_call(r)

SpecDiscount == InitDiscount /\ [][NextDiscount]_vars

\* C21: discount_sum(T, 0) is T exactly for every horizon T > 0; for a fixed
\* T > 0 discount_sum(T, r) is finite, positive and strictly decreasing in r
\* over r >= 0.
C21_DiscountSum ==
    (discount # Nil /\ discount.r # None)
    => /\ discount.r = Zero => discount.ret = Q(discount.T)
       /\ ~IsNaN(discount.ret) /\ Gt(discount.ret, Zero)
       /\ discount.before # Nil
            => /\ Lt(discount.before.r, discount.r)
                    => Lt(discount.ret, discount.before.ret)
               /\ Lt(discount.r, discount.before.r)
                    => Lt(discount.before.ret, discount.ret)

\* two calls on the longest horizon, the second at a higher positive rate
C21_Witness ==
    /\ discount # Nil /\ discount.before # Nil
    /\ discount.T = MaxHorizon
    /\ Lt(Zero, discount.before.r) /\ Lt(discount.before.r, discount.r)
    /\ Lt(discount.ret, discount.before.ret)

\* the undiscounted case on every horizon
C21_ZeroRate ==
    /\ discount # Nil /\ discount.r = Zero
    /\ discount.T = MaxHorizon /\ discount.ret = Q(MaxHorizon)

(* ------------------- calibration of the savings split ------------------ *)
\* targets naming investment, roi_ratio and c_per_qaly: S_total positive,
\* zero and negative, c_per_qaly positive, zero and negative
SplitTargets ==
    { Target(Q(8), None, None, One, Q(2)),
      Target(Q(8), None, None, R(-1, 2), Q(4)),
      Target(Q(8), None, None, One, Q(-2)),
      Target(Q(8), None, None, Q(-1), Q(2)),
      Target(Q(8), None, None, Q(-2), Q(2)),
      Target(Q(-8), None, None, One, Q(2)),
      Target(Q(8), None, None, One, Zero) }

NextSplit ==
    \/ load_parameters
    \/ \E key \in Keys, tgt \in SplitTargets :
          calibrate(<<<<key, tgt>>>>, PortResults(None, NoKey))

SpecSplit == Init /\ [][NextSplit]_vars

\* the mean of a Gamma [shape, scale]
GammaMean(g) == Mul(g[1], g[2])

\* D*(E/T) of lines 623-634 for a call c on the table P it left
FlowOf(P, c) ==
    Mul(discount_sum(P.meta.horizon_years, P.health_system.discount_rate),
        Div(EventsOf(P.interventions[c.key], c.tgt,
                     Q(P.interventions[c.key].Result_population),
                     Q(P.meta.horizon_years), CalibRrrMean(P.interventions[c.key])),
            Q(P.meta.horizon_years)))

\* a call with investment, roi_ratio and c_per_qaly targets on a populated
\* program with E > 0
SplitCase(P, c) ==
    /\ c.tgt.investment # None /\ c.tgt.roi_ratio # None /\ c.tgt.c_per_qaly # None
    /\ P.interventions[c.key].Result_population > 0
    /\ Gt(FlowOf(P, c), Zero)

\* the two shares lie in [0, S_total] and add up to S_total
SplitsTotal(hc, prod, S_total) ==
    /\ Le(Zero, hc) /\ Le(hc, S_total)
    /\ Le(Zero, prod) /\ Le(prod, S_total)
    /\ Add(hc, prod) = S_total

SplitOf(P, c) ==
    SplitsTotal(Mul(GammaMean(P.interventions[c.key].event_cost_gamma), FlowOf(P, c)),
                Mul(GammaMean(P.interventions[c.key].productivity_cost_gamma), FlowOf(P, c)),
                STotal(c.tgt))

\* C22 as stated: a calibration with investment, roi_ratio and c_per_qaly
\* targets (E > 0) splits S_total = investment*(1+roi_ratio) between the two
\* Gamma means, each share in [0, S_total] and the shares adding up to
\* S_total, for every combination of target values.
C22_SplitAnyTargets ==
    (LoadedOk /\ last_op = "calibrate")
    => \A i \in 1..Len(last_calibrate.calls) :
          SplitCase(parameters, last_calibrate.calls[i])
          => SplitOf(parameters, last_calibrate.calls[i])

\* C22 amended: the same, for targets with a nonzero c_per_qaly and an
\* S_total that is not negative.
C22_SplitPayable ==
    (LoadedOk /\ last_op = "calibrate")
    => \A i \in 1..Len(last_calibrate.calls) :
          (/\ SplitCase(parameters, last_calibrate.calls[i])
           /\ Truthy(last_calibrate.calls[i].tgt.c_per_qaly)
           /\ Ge(STotal(last_calibrate.calls[i].tgt), Zero))
          => SplitOf(parameters, last_calibrate.calls[i])

\* a split with both shares positive
C22_Witness ==
    /\ LoadedOk /\ last_op = "calibrate" /\ Len(last_calibrate.calls) = 1
    /\ SplitCase(parameters, last_calibrate.calls[1])
    /\ Truthy(last_calibrate.calls[1].tgt.c_per_qaly)
    /\ Gt(STotal(last_calibrate.calls[1].tgt), Zero)
    /\ Gt(GammaMean(parameters.interventions[last_calibrate.calls[1].key].event_cost_gamma), Zero)
    /\ Gt(GammaMean(parameters.interventions[last_calibrate.calls[1].key].productivity_cost_gamma), Zero)

(* --------------------- calibration of the two rates -------------------- *)
\* tables whose rates are inside the clamp bounds, and one whose event rates
\* are 0 (validation accepts 0 <= rate <= 1)
RateTables ==
    { ParamTable(2, Zero, "societal", LiteralAdjustments, TRUE),
      ParamTable(1, R(1, 9), "healthcare", LiteralAdjustments, FALSE),
      Uneventful(ParamTable(1, Zero, "societal", LiteralAdjustments, TRUE)) }

\* targets for events and deaths: ordinary, zero, negative and very large
\* ones, and a target that names neither
RateTargets ==
    { Target(None, Q(2), One, None, None),
      Target(None, Zero, Zero, None, None),
      Target(None, Q(-4), Q(-1), None, None),
      Target(None, Q(1000000), Q(1000000), None, None),
      Target(None, R(1, 1000000), Q(-1), None, None),
      Target(None, None, Q(4), None, None),
      Target(Q(8), None, None, None, None) }

InitRates ==
    /\ default_params \in RateTables
    /\ loaded = FALSE
    /\ results = [markov |-> Nil, monte_carlo |-> Nil, roi |-> Nil]
    /\ rng = -1
    /\ samples = <<>>
    /\ markov_hist = <<>>
    /\ mc_watch = Nil
    /\ last_mc = <<0, 0>>
    /\ calibrated = <<>>
    /\ n_calib = 0
    /\ load_error = None
    /\ last_calibrate = Nil
    /\ last_op = "__init__"
    /\ run_error = None
    /\ OthersIdle

NextRates ==
    \/ load_parameters
    \/ \E tgt \in RateTargets : calibrate(<<<<"cvd", tgt>>>>, PortResults(None, NoKey))
    \/ \E t1, t2 \in RateTargets :
          calibrate(<<<<"diabetes", t1>>, <<"cvd", t2>>>>, PortResults(None, NoKey))

SpecRates == InitRates /\ [][NextRates]_vars

\* the bounds of the two clamps (lines 604 and 611)
EventRateClamped(intr) ==
    Le(Eps8, intr.annual_event_rate) /\ Le(intr.annual_event_rate, R(95, 100))
FatalityClamped(intr) ==
    Le(Zero, intr.case_fatality_rate) /\ Le(intr.case_fatality_rate, R(95, 100))

\* the bounds _validate_parameters enforces on the two rates (lines 408-409)
RatesValid(intr) ==
    /\ Le(Zero, intr.annual_event_rate) /\ Le(intr.annual_event_rate, One)
    /\ Le(Zero, intr.case_fatality_rate) /\ Le(intr.case_fatality_rate, One)

\* C23 as stated: after calibrations with arbitrary targets every calibrated
\* program has its annual_event_rate in [1e-8, 0.95] and its
\* case_fatality_rate in [0, 0.95].
C23_CalibratedRatesClamped ==
    (LoadedOk /\ last_op = "calibrate")
    => \A i \in 1..Len(last_calibrate.calls) :
          /\ EventRateClamped(parameters.interventions[last_calibrate.calls[i].key])
          /\ FatalityClamped(parameters.interventions[last_calibrate.calls[i].key])

\* C23 amended: a calibrate() leaves each rate of each program as it was or
\* sets it inside the clamp bounds ([1e-8, 0.95] for annual_event_rate,
\* [0, 0.95] for case_fatality_rate), and both stay inside the bounds
\* enforced at load.
C23_RatesStayInBounds ==
    [][(LoadedOk /\ last_op' = "calibrate")
       => \A k \in Keys :
             /\ \/ parameters'.interventions[k].annual_event_rate
                      = parameters.interventions[k].annual_event_rate
                \/ EventRateClamped(parameters'.interventions[k])
             /\ \/ parameters'.interventions[k].case_fatality_rate
                      = parameters.interventions[k].case_fatality_rate
                \/ FatalityClamped(parameters'.interventions[k])
             /\ RatesValid(parameters'.interventions[k])]_vars

\* both rates of a program were cut to the upper bound by very large targets
C23_Witness ==
    /\ LoadedOk /\ last_op = "calibrate" /\ Len(last_calibrate.calls) = 1
    /\ last_calibrate.calls[1].tgt.events_prevented = Q(1000000)
    /\ parameters.interventions[last_calibrate.calls[1].key].annual_event_rate = R(95, 100)
    /\ parameters.interventions[last_calibrate.calls[1].key].case_fatality_rate = R(95, 100)

\* a negative events target is cut to the lower bound
C23_LowerBound ==
    /\ LoadedOk /\ last_op = "calibrate" /\ Len(last_calibrate.calls) = 1
    /\ last_calibrate.calls[1].tgt.events_prevented = Q(-4)
    /\ parameters.interventions[last_calibrate.calls[1].key].annual_event_rate = Eps8

(* ------------------- calibration on degenerate programs ---------------- *)
WithUtility(P, key, u) ==
    [P EXCEPT !.interventions[key].utility_weight = u]

\* programs without population, with a risk-reduction mean of 0 (residual
\* risk 1), with a utility weight that load rounds to 0.0, and without events
DivideTables ==
    PopTables
    \cup { WithRisk(ParamTable(1, Zero, "societal", LiteralAdjustments, TRUE),
                    "cvd", <<One, R(1, 100)>>, None),
           WithUtility(WithRisk(ParamTable(1, Zero, "healthcare", LiteralAdjustments, FALSE),
                                "cvd", <<R(1, 2), R(1, 100)>>, None),
                       "cvd", R(1, 10000)),
           Uneventful(ParamTable(1, Zero, "societal", LiteralAdjustments, TRUE)) }

\* target records: every field, fields absent, zero and negative
DivideTargets ==
    { EmptyTarget,
      Target(Q(8), Q(2), One, One, Q(2)),
      Target(Zero, Zero, Zero, Zero, Zero),
      Target(Q(-8), Q(-2), Q(-1), Q(-2), Q(-2)),
      Target(Q(8), None, Q(-1), Zero, Q(2)),
      Target(None, Q(2), None, None, Q(2)),
      Target(None, None, One, None, Q(2)) }

InitDivide ==
    /\ default_params \in DivideTables
    /\ loaded = FALSE
    /\ results = [markov |-> Nil, monte_carlo |-> Nil, roi |-> Nil]
    /\ rng = -1
    /\ samples = <<>>
    /\ markov_hist = <<>>
    /\ mc_watch = Nil
    /\ last_mc = <<0, 0>>
    /\ calibrated = <<>>
    /\ n_calib = 0
    /\ load_error = None
    /\ last_calibrate = Nil
    /\ last_op = "__init__"
    /\ run_error = None
    /\ OthersIdle

\* the target records that imply no savings total, or meet no step that
\* uses it (the split of a savings total is the subject of SpecSplit)
PartTargets ==
    {tgt \in DivideTargets :
        \/ STotal(tgt) = None \/ ~Truthy(tgt.c_per_qaly)
        \/ HasEvents(tgt) /\ Lt(tgt.events_prevented, Zero)}

\* the degenerate programs are "cvd" in all tables but one; a behaviour
\* makes one calibration (a second one divides rates of 1e-8 by floors of
\* 1e-9, numbers beyond the model's integers)
NextDivide ==
    \/ load_parameters
    \/ \E tgt \in PartTargets :
          n_calib = 0 /\ calibrate(<<<<"cvd", tgt>>>>, PortResults(None, NoKey))
    \/ \E tgt \in DivideTargets :
          n_calib = 0 /\ calibrate(<<<<"diabetes", tgt>>>>, PortResults(None, NoKey))

SpecDivide == InitDivide /\ [][NextDivide]_vars

\* C24: _calibrate_intervention completes without a division-by-zero error
\* for every known program (N <= 0, a risk-reduction mean of 0 and a
\* vanishing utility weight included) and every target record (fields
\* absent, zero or negative).
C24_NoDivisionFault ==
    (LoadedOk /\ last_op = "calibrate")
    => last_calibrate.error # ZeroDivisionError

\* an events target met on the program whose risk-reduction mean is 0: the
\* floored divisor puts the event rate at the upper bound
C24_Witness ==
    /\ LoadedOk /\ last_op = "calibrate" /\ last_calibrate.error = None
    /\ Len(last_calibrate.calls) = 1
    /\ HasEvents(last_calibrate.calls[1].tgt)
    /\ CalibRrrMean(parameters.interventions[last_calibrate.calls[1].key]) = Zero
    /\ parameters.interventions[last_calibrate.calls[1].key].annual_event_rate = R(95, 100)

\* a cost-per-QALY target met on the program whose utility weight reads 0.0
C24_NoUtility ==
    /\ LoadedOk /\ last_op = "calibrate" /\ last_calibrate.error = None
    /\ Len(last_calibrate.calls) = 1
    /\ Truthy(last_calibrate.calls[1].tgt.c_per_qaly)
    /\ parameters.interventions[last_calibrate.calls[1].key].utility_weight = Zero
    /\ parameters.interventions[last_calibrate.calls[1].key].qalys_lost_per_event = Eps6

\* a call on a program without population
C24_NoPopulation ==
    /\ LoadedOk /\ last_op = "calibrate" /\ last_calibrate.error = None
    /\ Len(last_calibrate.calls) = 1
    /\ parameters.interventions[last_calibrate.calls[1].key].Result_population <= 0

(* ------------- MonteCarloEngine (src/core/monte_carlo.py) -------------- *)
\* Costs are counted in thousands of AED, thresholds in thousands of AED per
\* QALY.

\* np.random.seed(seed)
np_random_seed(seed) == seed % 11

\* the generator states n successive variates are drawn from
RECURSIVE DrawStates(_, _)
DrawStates(s, n) == IF n <= 0 THEN <<>> ELSE <<s>> \o DrawStates(NextRng(s), n - 1)

\* ParameterDistribution.sample(n_samples, random_state): seeds the global
\* generator when a random_state is given (-1: None), then draws n_samples
sample(s, n_samples, random_state) ==
    DrawStates(IF random_state # -1 THEN np_random_seed(random_state) ELSE s, n_samples)

\* the first parameters of load_uae_parameter_distributions
ParameterNames == {"cvd_intervention_effectiveness", "cvd_baseline_risk"}

\* what model_function returns or does for one iteration
Raises == [raises |-> TRUE]
ModelResult(cost, qalys) == [cost |-> cost, qalys |-> qalys]
ModelResults ==
    { ModelResult(Q(120), One), ModelResult(Q(400), Q(2)), ModelResult(Q(-10), Zero),
      ModelResult(Q(60), Q(-1)), ModelResult(NaN, One), Raises }

\* lines 246-254: the record of one iteration
IterationRecord(result) ==
    IF result = Raises THEN ModelResult(NaN, NaN) ELSE result

\* the rows without NaN in cost or qalys (valid_mask)
ValidRows_all(rows) == rows

RECURSIVE ValidRows(_)
ValidRows(rows) ==
    IF rows = <<>> THEN <<>>
    ELSE (IF IsNaN(Head(rows).cost) \/ IsNaN(Head(rows).qalys)
          THEN <<>> ELSE <<Head(rows)>>) \o ValidRows(Tail(rows))

\* the condition of lines 365-366 and 442-443
CostEffective(row, threshold) ==
    \/ Gt(row.qalys, Zero) /\ Le(row.cost, Mul(threshold, row.qalys))
    \/ Le(row.cost, Zero) /\ Ge(row.qalys, Zero)

RECURSIVE CeCount(_, _)
CeCount(valid, threshold) ==
    IF valid = <<>> THEN 0
    ELSE (IF CostEffective(Head(valid), threshold) THEN 1 ELSE 0)
         + CeCount(Tail(valid), threshold)

\* ce_count / len(valid_cost) if len(valid_cost) > 0 else 0
CeProbability(valid, threshold) ==
    IF Len(valid) > 0 THEN R(CeCount(valid, threshold), Len(valid)) ELSE Zero

\* thresholds of line 356, in thousands of AED per QALY
Thresholds == <<50, 100, 150, 200, 250, 300>>

\* _calculate_cost_effectiveness_probability(results_df)
calculate_cost_effectiveness_probability(rows) ==
    [i \in 1..Len(Thresholds) |-> CeProbability(ValidRows(rows), Q(Thresholds[i]))]

\* np.linspace(lo, hi, n_points)
linspace(lo, hi, n_points) ==
    [i \in 1..n_points |->
        IF n_points = 1 THEN Q(lo) ELSE Add(Q(lo), R((i - 1) * (hi - lo), n_points - 1))]

\* MonteCarloEngine(n_iterations, random_seed)
InitPsa ==
    /\ EngineIdle
    /\ DiscountIdle
    /\ MarkovIdle
    /\ CostIdle
    /\ np_random = -1
    /\ psa \in {[n_iterations |-> n, random_seed |-> seed, parameters |-> {}, results |-> Nil] :
                   n \in 1..MaxIter, seed \in Seeds}
    /\ parameter_samples = Nil
    /\ ceac = Nil

load_uae_parameter_distributions ==
    /\ psa' = [psa EXCEPT !.parameters = ParameterNames]
    /\ UNCHANGED <<engine, discount, markovVars, costVars, np_random, parameter_samples, ceac>>

\* run_simulation(model_function); results[i] is what model_function does in
\* iteration i
run_simulation(model_results) ==
    /\ parameter_samples' =
          [name \in psa.parameters |->
              sample(np_random_seed(psa.random_seed), psa.n_iterations, psa.random_seed)]
    /\ np_random' =
          IF psa.parameters = {} THEN np_random_seed(psa.random_seed)
          ELSE (np_random_seed(psa.random_seed) + psa.n_iterations) % 11
    /\ \E rows \in {[i \in 1..psa.n_iterations |-> IterationRecord(model_results[i])]} :
          psa' = [psa EXCEPT !.results =
                     [iteration_results |-> rows,
                      cost_effectiveness_probability |->
                          calculate_cost_effectiveness_probability(rows)]]
    /\ UNCHANGED <<engine, discount, markovVars, costVars, ceac>>

\* generate_ceac_data(threshold_range, n_points)
generate_ceac_data(lo, hi, n_points) ==
    /\ ceac' =
          IF psa.results = Nil THEN ValueError
          ELSE [threshold_aed_per_qaly |-> linspace(lo, hi, n_points),
                probability_cost_effective |->
                   [i \in 1..n_points |->
                       CeProbability(ValidRows(psa.results.iteration_results),
                                     linspace(lo, hi, n_points)[i])]]
    /\ UNCHANGED <<engine, discount, markovVars, costVars, np_random, psa, parameter_samples>>

NextPsa ==
    \/ load_uae_parameter_distributions
    \/ /\ ceac = Nil       \* the curve is read after the last run
       /\ \E model_results \in [1..psa.n_iterations -> ModelResults] :
             run_simulation(model_results)
    \/ \E n_points \in 1..MaxPoints : generate_ceac_data(0, 300, n_points)

SpecPsa == InitPsa /\ [][NextPsa]_vars

\* C25: within one Monte Carlo run no two sampled quantities (two parameters
\* in one iteration, or one parameter in two iterations) are drawn from the
\* same state of the seeded stream.
C25_FreshDraws ==
    (psa # Nil /\ psa.results # Nil)
    => \A n1, n2 \in DOMAIN parameter_samples :
          \A i, j \in 1..psa.n_iterations :
             <<n1, i>> # <<n2, j>> => parameter_samples[n1][i] # parameter_samples[n2][j]

\* the part of C25 the engine keeps: the samples of one parameter are drawn
\* from successive states
C25_FreshPerIteration ==
    (psa # Nil /\ psa.results # Nil)
    => \A n1 \in DOMAIN parameter_samples :
          \A i, j \in 1..psa.n_iterations :
             i # j => parameter_samples[n1][i] # parameter_samples[n1][j]
C25_SampledCase ==
    /\ psa # Nil /\ psa.results # Nil /\ psa.n_iterations = MaxIter
    /\ DOMAIN parameter_samples = ParameterNames

\* the iterations whose cost and QALYs are both numbers
ValidIterations(rows) ==
    {i \in 1..Len(rows) : ~IsNaN(rows[i].cost) /\ ~IsNaN(rows[i].qalys)}

\* probs is a non-decreasing sequence of probabilities that are counts over
\* the valid iterations, and all 0 when no iteration is valid
ProbabilityCurve(probs, rows) ==
    /\ \A k \in DOMAIN probs :
          /\ Ge(probs[k], Zero) /\ Le(probs[k], One)
          /\ IF ValidIterations(rows) = {} THEN probs[k] = Zero
             ELSE \E c \in 0..Cardinality(ValidIterations(rows)) :
                     probs[k] = R(c, Cardinality(ValidIterations(rows)))
    /\ \A k, l \in DOMAIN probs : k < l => Le(probs[k], probs[l])

\* C30: the probability of cost-effectiveness lies in [0, 1], is
\* non-decreasing in the threshold, counts over the iterations without NaN
\* only, and is 0 when no iteration is valid: in the result of run_simulation
\* and in the curve of generate_ceac_data.
C30_CeProbability ==
    [][/\ psa'.results # Nil
          => ProbabilityCurve(psa'.results.cost_effectiveness_probability,
                              psa'.results.iteration_results)
       /\ (ceac' # ceac /\ ceac' # ValueError)
          => ProbabilityCurve(ceac'.probability_cost_effective,
                              psa.results.iteration_results)]_vars

\* a run with a NaN iteration and a valid one whose cost-effectiveness depends
\* on the threshold, and its curve over MaxPoints thresholds
C30_Witness ==
    /\ psa # Nil /\ psa.results # Nil /\ ceac # Nil /\ ceac # ValueError
    /\ ValidIterations(psa.results.iteration_results) # {}
    /\ ValidIterations(psa.results.iteration_results)
          # 1..Len(psa.results.iteration_results)
    /\ Lt(psa.results.cost_effectiveness_probability[1],
          psa.results.cost_effectiveness_probability[Len(Thresholds)])
    /\ Len(ceac.probability_cost_effective) = MaxPoints
    /\ Lt(ceac.probability_cost_effective[1], ceac.probability_cost_effective[MaxPoints])

\* a run in which every iteration failed: probability 0 at every threshold
C30_NoValidIteration ==
    /\ psa # Nil /\ psa.results # Nil /\ ceac # Nil /\ ceac # ValueError
    /\ ValidIterations(psa.results.iteration_results) = {}
    /\ \A k \in 1..Len(Thresholds) : psa.results.cost_effectiveness_probability[k] = Zero
    /\ \A k \in DOMAIN ceac.probability_cost_effective :
          ceac.probability_cost_effective[k] = Zero

(* --------------------------- repeated loads ---------------------------- *)
\* the full-precision values the simulator reads
ExactOf(P) ==
    [interventions |->
        [k \in Keys |->
            <<P.interventions[k].rr_lognormal_exact,
              P.interventions[k].cost_ppy_gamma_exact,
              P.interventions[k].event_cost_gamma_exact,
              P.interventions[k].productivity_cost_gamma_exact,
              P.interventions[k].annual_event_rate_exact,
              P.interventions[k].case_fatality_rate_exact,
              P.interventions[k].utility_weight_exact,
              P.interventions[k].qalys_lost_per_event_exact,
              P.interventions[k].life_years_lost_per_death_exact>>],
     portfolio_adjustments |-> P.portfolio_adjustments_exact]

\* the rounded values load_parameters leaves under the visible keys
VisibleOf(P) ==
    [interventions |->
        [k \in Keys |->
            <<P.interventions[k].rr_lognormal,
              P.interventions[k].cost_ppy_gamma,
              P.interventions[k].event_cost_gamma,
              P.interventions[k].productivity_cost_gamma,
              P.interventions[k].annual_event_rate,
              P.interventions[k].case_fatality_rate,
              P.interventions[k].utility_weight,
              P.interventions[k].qalys_lost_per_event,
              P.interventions[k].life_years_lost_per_death>>],
     portfolio_adjustments |-> P.portfolio_adjustments]

\* a load_parameters call that follows a successful load_parameters call
LoadsAgain ==
    /\ last_op = "load_parameters" /\ load_error = None
    /\ last_op' = "load_parameters"

\* C26: a load that follows a load leaves every full-precision value the
\* simulator reads (Lognormal, Gammas, scalars, portfolio adjustments) as the
\* first load left it.
C26_LoadIdempotent ==
    [][LoadsAgain => ExactOf(default_params') = ExactOf(default_params)]_vars

\* what a later load does keep: the rounded visible values, and with them the
\* Lognormal that the first load derived (it is not derived again)
C26_VisibleKept ==
    [][LoadsAgain => VisibleOf(default_params') = VisibleOf(default_params)]_vars
\* a table loaded twice whose full-precision values are the rounded ones
C26_RoundedExact ==
    /\ loaded /\ load_error = None /\ last_op = "load_parameters"
    /\ ExactOf(default_params) = VisibleOf(default_params)
    /\ \E P \in ParamTables :
          /\ Valid(P)
          /\ VisibleOf(LoadedParams(P)) = VisibleOf(default_params)
          /\ ExactOf(LoadedParams(P)) # ExactOf(default_params)

(* ------------ Markov cohort model (src/core/markov_model.py) ----------- *)
HealthState == <<"healthy", "at_risk", "diagnosed", "complications", "death">>
HealthStates == {HealthState[i] : i \in 1..Len(HealthState)}

CVD == "Cardiovascular Disease"
Diabetes == "Type 2 Diabetes"

\* base values of the transition probabilities (the literal ones are
\* multiples of 0.001; the model's are dyadic)
TransitionProbs(har, hd, ard, ad) ==
    [healthy_to_at_risk |-> har, at_risk_to_diagnosed |-> ard,
     diagnosed_to_complications |-> R(1, 4), healthy_to_death |-> hd,
     at_risk_to_death |-> ad, diagnosed_to_death |-> R(1, 4),
     complications_to_death |-> R(1, 2)]
ProbTables ==
    { TransitionProbs(R(1, 2), R(1, 4), R(1, 2), R(1, 4)),
      TransitionProbs(R(1, 4), Zero, R(1, 2), Zero) }

\* state_populations and results as __init__ and _reset_model build them
InitialPopulations(N, T) ==
    [st \in HealthStates |->
        [c \in 0..T |-> IF st = "healthy" /\ c = 0 THEN Q(N) ELSE Zero]]
InitialResults(T) ==
    [life_years |-> [c \in 0..T |-> Zero],
     events_prevented |-> Zero, deaths_averted |-> Zero]

\* CVDMarkovModel(N) / DiabetesMarkovModel(N); the time horizon (20 in the
\* source) and the base values are attributes, bounded here.  Costs and QALYs
\* (discounted weighted sums of the same populations) are not modelled.
MarkovCohortModel(disease_name, N, T, probs) ==
    [disease_name |-> disease_name, initial_cohort_size |-> N, time_horizon |-> T,
     transition_probs |-> probs,
     state_populations |-> InitialPopulations(N, T),
     results |-> InitialResults(T)]

\* CVDMarkovModel._apply_transitions, the HEALTHY branch
HealthyTransitions(M, population, tp, cycle) ==
    LET to_at_risk == Mul(population, tp.healthy_to_at_risk)
        to_death == Mul(population, tp.healthy_to_death)
        staying == Sub(Sub(population, to_at_risk), to_death)
    IN  [M EXCEPT !.state_populations["healthy"][cycle + 1] = Add(@, staying),
                  !.state_populations["at_risk"][cycle + 1] = Add(@, to_at_risk),
                  !.state_populations["death"][cycle + 1] = Add(@, to_death)]

\* CVDMarkovModel._apply_transitions, the AT_RISK branch
AtRiskTransitions(M, population, tp, cycle) ==
    LET to_diagnosed == Mul(population, tp.at_risk_to_diagnosed)
        to_death == Mul(population, tp.at_risk_to_death)
        staying == Sub(Sub(population, to_diagnosed), to_death)
    IN  [M EXCEPT !.state_populations["at_risk"][cycle + 1] = Add(@, staying),
                  !.state_populations["diagnosed"][cycle + 1] = Add(@, to_diagnosed),
                  !.state_populations["death"][cycle + 1] = Add(@, to_death),
                  !.results.events_prevented = Add(@, Mul(to_diagnosed, R(3, 10)))]

\* _apply_transitions: CVDMarkovModel has the two branches above and none for
\* the other states; DiabetesMarkovModel inherits the base method (pass)
apply_transitions(M, from_state, population, tp, cycle) ==
    IF M.disease_name # CVD THEN M
    ELSE IF from_state = "healthy" THEN HealthyTransitions(M, population, tp, cycle)
    ELSE IF from_state = "at_risk" THEN AtRiskTransitions(M, population, tp, cycle)
    ELSE M

\* _run_cycle, the loop over from_state (lines 148-150)
RECURSIVE TransitionsFrom(_, _, _, _, _)
TransitionsFrom(M, current_pops, tp, cycle, i) ==
    IF i > Len(HealthState) THEN M
    ELSE TransitionsFrom(
            IF Gt(current_pops[HealthState[i]], Zero)
            THEN apply_transitions(M, HealthState[i], current_pops[HealthState[i]], tp, cycle)
            ELSE M,
            current_pops, tp, cycle, i + 1)

\* the people alive in a cycle
Alive(pops, c) ==
    SumSeq([i \in 1..(Len(HealthState) - 1) |-> pops[HealthState[i]][c]])

LifeYearsSet(M, cycle) ==
    [M EXCEPT !.results.life_years[cycle + 1] = Alive(M.state_populations, cycle + 1)]

\* _run_cycle(cycle, use_base_case=True)
run_cycle(M, cycle) ==
    LifeYearsSet(
        TransitionsFrom(M, [st \in HealthStates |-> M.state_populations[st][cycle]],
                        M.transition_probs, cycle, 1),
        cycle)

\* run_deterministic, the loop over the cycles
RECURSIVE RunCycles(_, _)
RunCycles(M, cycle) ==
    IF cycle >= M.time_horizon THEN M ELSE RunCycles(run_cycle(M, cycle), cycle + 1)

\* _calculate_outcomes
calculate_outcomes(M) ==
    [total_life_years |->
        SumSeq([i \in 1..(M.time_horizon + 1) |-> M.results.life_years[i - 1]]),
     events_prevented |-> M.results.events_prevented,
     deaths_averted |-> M.results.deaths_averted]

CohortSizes == {8, 16}

InitMarkov ==
    /\ EngineIdle
    /\ DiscountIdle
    /\ PsaIdle
    /\ CostIdle
    /\ cohort_model \in {MarkovCohortModel(name, N, T, probs) :
                            name \in {CVD, Diabetes}, N \in CohortSizes,
                            T \in 1..MaxHorizon, probs \in ProbTables}
    /\ cohort_out = <<>>

\* run_deterministic(); the caller keeps what it returned, with the base
\* values it ran on
run_deterministic ==
    /\ Len(cohort_out) < MaxRuns
    /\ cohort_model' = RunCycles(cohort_model, 0)
    /\ cohort_out' = Append(cohort_out,
                            [outcome |-> calculate_outcomes(cohort_model'),
                             transition_probs |-> cohort_model.transition_probs])
    /\ UNCHANGED <<engine, discount, psaVars, costVars>>

\* run_prevention_scenario_analysis, lines 344-349: the base values of the
\* progression probabilities are multiplied by 0.7
reduce_progression ==
    /\ cohort_model' =
          [cohort_model EXCEPT
             !.transition_probs.at_risk_to_diagnosed = Mul(@, R(7, 10)),
             !.transition_probs.diagnosed_to_complications = Mul(@, R(7, 10))]
    /\ UNCHANGED <<engine, discount, psaVars, costVars, cohort_out>>

\* _reset_model()
reset_model ==
    /\ cohort_model' =
          [cohort_model EXCEPT
             !.state_populations =
                 InitialPopulations(cohort_model.initial_cohort_size, cohort_model.time_horizon),
             !.results = InitialResults(cohort_model.time_horizon)]
    /\ UNCHANGED <<engine, discount, psaVars, costVars, cohort_out>>

NextMarkov ==
    \/ run_deterministic
    \/ cohort_model.transition_probs \in ProbTables /\ reduce_progression
    \/ reset_model

SpecMarkov == InitMarkov /\ [][NextMarkov]_vars

\* the model holds the cohort as constructed or reset
Fresh(M) ==
    M.state_populations = InitialPopulations(M.initial_cohort_size, M.time_horizon)

PopulationAt(M, c) ==
    SumSeq([i \in 1..Len(HealthState) |-> M.state_populations[HealthState[i]][c]])

\* C27: after a run from the initial cohort the populations of the five
\* health states sum to initial_cohort_size in every cycle 0..time_horizon,
\* and the DEATH population never decreases from a cycle to the next.
C27_CohortConserved ==
    [][(Fresh(cohort_model) /\ cohort_out' # cohort_out)
       => /\ \A c \in 0..cohort_model.time_horizon :
                PopulationAt(cohort_model', c) = Q(cohort_model.initial_cohort_size)
          /\ \A c \in 0..(cohort_model.time_horizon - 1) :
                Le(cohort_model'.state_populations["death"][c],
                   cohort_model'.state_populations["death"][c + 1])]_vars

\* what the CVD model keeps: the first cycle of a run from the initial cohort
\* conserves the cohort
C27_FirstCycleConserved ==
    [][(Fresh(cohort_model) /\ cohort_out' # cohort_out /\ cohort_model.disease_name = CVD)
       => PopulationAt(cohort_model', 1) = Q(cohort_model.initial_cohort_size)]_vars
\* a CVD run whose dead of cycle 1 are gone in cycle 2
C27_DeadLost ==
    /\ cohort_model # Nil /\ Len(cohort_out) = 1
    /\ cohort_model.disease_name = CVD /\ cohort_model.time_horizon >= 2
    /\ Lt(PopulationAt(cohort_model, 2), Q(cohort_model.initial_cohort_size))
\* a diabetes run: nobody is left after cycle 0
C27_NoTransitions ==
    /\ cohort_model # Nil /\ Len(cohort_out) = 1
    /\ cohort_model.disease_name = Diabetes
    /\ PopulationAt(cohort_model, 1) = Zero

\* C28: what run_deterministic returns is what a run from the initial cohort
\* returns for the base values the model had.
C28_FromInitialCohort ==
    \A i \in 1..Len(cohort_out) :
       cohort_out[i].outcome
         = calculate_outcomes(
              RunCycles(MarkovCohortModel(cohort_model.disease_name,
                                          cohort_model.initial_cohort_size,
                                          cohort_model.time_horizon,
                                          cohort_out[i].transition_probs), 0))

\* two runs in a row on unchanged base values that return different outcomes
C28_SecondRunDiffers ==
    /\ Len(cohort_out) = 2
    /\ cohort_out[1].transition_probs = cohort_out[2].transition_probs
    /\ cohort_out[1].outcome # cohort_out[2].outcome
\* what holds: a run that follows _reset_model returns the outcome of the
\* initial cohort
C28_AfterReset ==
    [][(Fresh(cohort_model) /\ cohort_model.results = InitialResults(cohort_model.time_horizon)
        /\ cohort_out' # cohort_out)
       => cohort_out'[Len(cohort_out')].outcome
            = calculate_outcomes(
                 RunCycles(MarkovCohortModel(cohort_model.disease_name,
                                             cohort_model.initial_cohort_size,
                                             cohort_model.time_horizon,
                                             cohort_model.transition_probs), 0))]_vars

(* ----- DataPreprocessor (src/scripts/data_preprocessing_complete.py) ---- *)
\* round(x, -k): to the nearest multiple of unit = 10^k
RoundTo(x, unit) == Mul(Round(Div(x, Q(unit)), 1), Q(unit))

\* _apply_inflation_recursive on a number
apply_inflation(obj, factor) ==
    IF Gt(obj, Q(50))
    THEN (IF Lt(obj, Q(1000)) THEN Round(Mul(obj, factor), 100)
          ELSE RoundTo(Mul(obj, factor), 100))
    ELSE obj

\* _apply_inflation_recursive on a section: a list of numbers
apply_inflation_recursive(section, factor) ==
    [i \in DOMAIN section |-> apply_inflation(section[i], factor)]

\* the cost file: metadata (last_inflation_update 0: key absent), the two cost
\* sections, and productivity_costs (<<>>: no salary in it)
CostFile(base_year, intervention_costs, treatment_costs, salary) ==
    [metadata |-> [base_year |-> base_year, last_inflation_update |-> 0,
                   inflation_adjustment_factor |-> None, years_inflated |-> 0,
                   inflation_rate_applied |-> None],
     intervention_costs |-> intervention_costs,
     treatment_costs |-> treatment_costs,
     productivity_costs |-> IF salary = None THEN <<>>
                            ELSE [average_annual_salary_aed |-> salary]]

CostFiles ==
    {CostFile(2025, ic, <<Q(2000)>>, salary) :
        ic \in {<<Q(40), Q(100)>>, <<R(1999, 2)>>, <<>>},
        salary \in {Q(120000), None}}

\* the sections after the adjustment (lines 93-107)
InflatedFile(F, factor) ==
    [F EXCEPT
       !.intervention_costs = apply_inflation_recursive(@, factor),
       !.treatment_costs = apply_inflation_recursive(@, factor),
       !.productivity_costs =
          IF @ = <<>> THEN @
          ELSE [@ EXCEPT !.average_annual_salary_aed = RoundTo(Mul(@, factor), 1000)]]

\* the metadata update of lines 110-116
StampedFile(F, now, factor, years_elapsed, base_inflation) ==
    [F EXCEPT
       !.metadata.last_inflation_update = now,
       !.metadata.inflation_adjustment_factor = Round(factor, 10000),
       !.metadata.years_inflated = years_elapsed,
       !.metadata.inflation_rate_applied = base_inflation]

\* adjustment_factor = (1 + base_inflation) ** years_elapsed
adjustment_factor(base_inflation, years_elapsed) ==
    IF years_elapsed >= 0 THEN Pow(Add(One, base_inflation), years_elapsed)
    ELSE Div(One, Pow(Add(One, base_inflation), -years_elapsed))

Logged(log, operations) ==
    [log EXCEPT !.operations = @ \o operations]

\* DataPreprocessor(data_directory), in one of the years CurrentYears
CurrentYears == {2025, 2026, 2027}
InitCosts ==
    /\ EngineIdle
    /\ DiscountIdle
    /\ PsaIdle
    /\ MarkovIdle
    /\ current_year \in CurrentYears
    /\ cost_file \in CostFiles \cup {Nil}
    /\ processing_log = [operations |-> <<>>, errors |-> <<>>]
    /\ inflation_ret = Nil

\* update_inflation_adjusted_costs(base_inflation)
update_inflation_adjusted_costs(base_inflation) ==
    /\ Len(processing_log.operations) + Len(processing_log.errors) < MaxOperations
    /\ IF cost_file = Nil
       THEN /\ processing_log' = [processing_log EXCEPT !.errors = Append(@, "File not found")]
            /\ inflation_ret' = FALSE
            /\ UNCHANGED cost_file
       ELSE IF current_year - cost_file.metadata.base_year = 0
       THEN /\ processing_log' = Logged(processing_log, <<"No inflation adjustment needed">>)
            /\ inflation_ret' = TRUE
            /\ UNCHANGED cost_file
       ELSE /\ cost_file' =
                 StampedFile(
                    InflatedFile(cost_file,
                                 adjustment_factor(base_inflation,
                                                   current_year - cost_file.metadata.base_year)),
                    current_year,
                    adjustment_factor(base_inflation,
                                      current_year - cost_file.metadata.base_year),
                    current_year - cost_file.metadata.base_year,
                    base_inflation)
            /\ processing_log' = Logged(processing_log,
                                        <<"Saved processed data", "Inflation adjustment completed">>)
            /\ inflation_ret' = TRUE
    /\ UNCHANGED <<engine, discount, psaVars, markovVars, current_year>>

NextCosts ==
    \E base_inflation \in {R(29, 500), Zero} :
       update_inflation_adjusted_costs(base_inflation)

SpecCosts == InitCosts /\ [][NextCosts]_vars

\* the cost values of the file
CostsOf(F) ==
    <<F.intervention_costs, F.treatment_costs, F.productivity_costs>>

\* C29: a run of update_inflation_adjusted_costs on a file that was already
\* adjusted in the current year, at the same rate, leaves every cost value as
\* it is.
C29_InflatedOnce ==
    [][(/\ processing_log' # processing_log
        /\ cost_file # Nil
        /\ cost_file.metadata.last_inflation_update = current_year
        /\ cost_file'.metadata.inflation_rate_applied
              = cost_file.metadata.inflation_rate_applied)
       => CostsOf(cost_file') = CostsOf(cost_file)]_vars

\* what holds: in the base year no run changes a cost, and a value of at
\* most 50 is never changed
C29_BaseYearUnchanged ==
    [][(cost_file # Nil /\ current_year = cost_file.metadata.base_year)
       => CostsOf(cost_file') = CostsOf(cost_file)]_vars
\* a file adjusted twice in one year at 5.8 %: 100 has become 111.94
C29_Compounded ==
    /\ cost_file # Nil /\ current_year = 2026
    /\ cost_file.metadata.last_inflation_update = current_year
    /\ Len(processing_log.operations) = 4
    /\ Len(cost_file.intervention_costs) = 2
    /\ cost_file.intervention_costs[1] = Q(40)
    /\ cost_file.intervention_costs[2] = R(11194, 100)

====
